---- MODULE Spec2Model ----
(***************************************************************************)
(* A model of pmutils' package distribution core:                          *)
(*   - Database (src/pmutils/database.py): the in-memory mirror of the     *)
(*     pacman index, its pending queues, add / remove / save / reload;     *)
(*   - Repository.sync (src/pmutils/registry.py): save, then the requests  *)
(*     of oauth_token, _upload_package and _upload_database;               *)
(*   - OciWrapper (src/pmutils/oci.py): upload_blob, upload_manifest,      *)
(*     check_existence and upload against an OCI registry;                 *)
(*   - upload_bundle (src/pmutils/vm/remote.py): the producer, the bounded *)
(*     queue and the upload workers;                                       *)
(* The specifications (SpecDb and SpecSync for the database and sync,       *)
(* SpecOci, SpecPipe and SpecPipeLive) run over one set of variables; each *)
(* leaves the variables of the other parts unchanged.                      *)
(***************************************************************************)
EXTENDS Integers, Sequences, FiniteSets, TLC

VARIABLES
    \* ---- Database / Repository.sync ----
    disk,        \* the on-disk index: package name -> record (or NoPkg)
    lock,        \* TRUE while the "<db>.lck" file exists
    packages,    \* Database._packages
    names,       \* Database._names
    additions,   \* Database._additions   (file list)
    add_names,   \* Database._add_names
    new_files,   \* Database._new_files   (list of <<record, file>>)
    removals,    \* Database._removals
    pc,          \* position of the (single-threaded) caller, in save() and sync()
    lastOp,      \* the last call made: "load", "add", "remove", "sync" or "save"
    rebuilt,     \* TRUE once the running save() has invoked repo-remove or repo-add
    tools,       \* history: the tools the running save() has invoked, in order
    ret,         \* what that call returned
    updates,     \* Repository.sync: the list save() returned, still to upload
    requested,   \* files the running sync() has issued registry requests for, in order
    dbUploaded,  \* TRUE once the running sync() sent the index to the release host
    nops,        \* number of add / remove calls made so far
    syncRet,     \* what the last Repository.sync() returned ("unset" while none has)
    \* history variables (not program state)
    maxAdded,    \* name -> a maximal version among the files given to add
    tainted,     \* names that saw remove() or add(allow_downgrade = TRUE)
    diskBefore,  \* the on-disk index when the running save() began
    unsynced,    \* files whose registry upload failed in a sync, no add since
    \* ---- OciWrapper and the registry ----
    regBlobs,    \* blobs the registry stores: set of <<namespace, sha256>>
    regManifests,\* manifests stored by digest: set of <<namespace, digest>>
    regTags,     \* namespace -> tag -> Index document (or NoIndex)
    ocall,       \* the OciWrapper call in progress (or NoCall)
    opc,         \* its position
    exists,      \* upload: the Existence check_existence returned
    others,      \* upload: the other_manifests check_existence returned
    thisDigest,  \* check_existence: this_manifest_digest
    olog,        \* the HTTP requests the call in progress has issued
    oret,        \* the value the last finished call returned
    history,     \* finished calls, oldest first
    \* ---- upload_bundle: the streaming pipeline ----
    queue,       \* upload_queue: blob numbers in FIFO order, 0 for None
    blobs,       \* zcmp.blobs: <<digest, size>> of each emitted blob, in order
    mpc,         \* position of the main thread (the producer)
    interrupted, \* upload_bundle's local flag
    wpc,         \* worker -> its position in upload_func
    work,        \* worker -> the blob number it holds (0: none)
    retries,     \* worker -> upload_func's local counter
    attempts,    \* history: worker -> upload_blob calls made for the blob it holds
    drained,     \* history: items the drain loop threw away
    plog,        \* the write requests of the final ociw.upload
    fate,        \* history: blob number -> what happened to it: "put", "get", "drain"
    \* ---- Registry.oauth_token and the requests of Repository.sync ----
    url,         \* Registry._url, as the pieces of its text
    oauths,      \* Registry._oauths: repository name -> token (or NoToken)
    exchanges,   \* history: repository name -> tokens the endpoint issued for it
    sidx,        \* sync: the entry of updates being uploaded (1-based)
    stoken,      \* sync: the local "token"
    pexists,     \* _upload_package: the Existence _check_package_existence returned
    pothers,     \* _upload_package: its other_manifests
    slog,        \* the requests the running sync() has issued, in order
    releases,    \* the release host: what GET /releases answers
    release_id,  \* _upload_database: release_id (0 for None)
    db_asset_id, \* _upload_database: db_asset_id (NoAsset for None)
    sig_asset_id,\* _upload_database: sig_asset_id (NoAsset for None)
    nsyncs       \* number of sync() calls made so far

dbVars  == <<disk, lock, packages, names, additions, add_names, new_files,
             removals, pc, lastOp, rebuilt, ret, updates, requested, dbUploaded, nops,
             maxAdded, tainted, diskBefore, syncRet, unsynced, tools>>
ociVars == <<regBlobs, regManifests, regTags, ocall, opc, exists, others,
             thisDigest, olog, oret, history>>
pipeVars == <<queue, blobs, mpc, interrupted, wpc, work, retries, attempts,
              drained, plog, fate>>
\* the database proper, apart from the caller's position and what sync() notes
dbState == <<disk, lock, packages, names, additions, add_names, new_files,
             removals, lastOp, rebuilt, ret, updates, nops, maxAdded, tainted,
             diskBefore, tools>>
\* the registry, and the OciWrapper call in progress
regVars == <<regBlobs, regManifests, regTags>>
callVars == <<ocall, opc, exists, others, thisDigest, olog, oret, history>>
\* the locals of a running sync(), and what outlives it
syncLocals == <<sidx, stoken, pexists, pothers, slog, release_id, db_asset_id,
                sig_asset_id>>
syncGlobals == <<url, oauths, exchanges, releases, nsyncs>>
syncVars == <<syncLocals, syncGlobals>>
vars    == <<dbVars, ociVars, pipeVars, syncVars>>

----------------------------------------------------------------------------
(* Bounds of the model *)

\* add / remove calls made on the database in one run
MaxOps == 3

\* OciWrapper calls made in one run
MaxCalls == 3

\* write requests the registry refuses (answers non-2xx) in one run
MaxRefused == 1

\* blobs the compressor emits in one run of upload_bundle
MaxBlobs == 3

\* capacity of the upload queue, Queue(maxsize=MAX_PENDING_UPLOADS); the source
\* has MAX_PENDING_UPLOADS = 20, the model runs the same queue with a capacity
\* that MaxBlobs blobs can fill
QueueCap == 2

\* the count of upload_blob calls for one blob stops growing here
MaxAttempts == 4

\* Repository.sync() calls whose requests one run follows
MaxSyncs == 2

----------------------------------------------------------------------------
(* Versions and their ordering *)

NoVer == [none |-> "version"]

\* package.Version(epoch, pkgver, pkgrel); pkgver and pkgrel are digit strings
Ver(e, v, r) == [epoch |-> e, pkgver |-> v, pkgrel |-> r]

V_1_1  == Ver(0, <<1>>, <<1>>)       \* "1-1"
V_1_01 == Ver(0, <<1>>, <<0, 1>>)    \* "1-01": orders equal to "1-1"
V_1_2  == Ver(0, <<1>>, <<2>>)       \* "1-2"

Versions == {V_1_1, V_1_01, V_1_2}

RECURSIVE StripZeros(_)
StripZeros(s) ==
    IF s = <<>> THEN <<>>
    ELSE IF Head(s) = 0 THEN StripZeros(Tail(s)) ELSE s

RECURSIVE StrCmp(_, _)
StrCmp(a, b) ==
    IF a = <<>> /\ b = <<>> THEN 0
    ELSE IF a = <<>> THEN -1
    ELSE IF b = <<>> THEN 1
    ELSE IF Head(a) < Head(b) THEN -1
    ELSE IF Head(a) > Head(b) THEN 1
    ELSE StrCmp(Tail(a), Tail(b))

\* rpmvercmp on two all-digit strings: leading zeros are dropped, the longer
\* number wins, equal lengths compare as strings
SegCmp(a, b) ==
    IF a = b THEN 0
    ELSE LET x == StripZeros(a)
             y == StripZeros(b)
         IN  IF Len(x) > Len(y) THEN 1
             ELSE IF Len(x) < Len(y) THEN -1
             ELSE StrCmp(x, y)

\* vercmp(str(a), str(b)): epoch, then pkgver, then pkgrel
VerCmp(a, b) ==
    IF a.epoch # b.epoch THEN (IF a.epoch < b.epoch THEN -1 ELSE 1)
    ELSE IF SegCmp(a.pkgver, b.pkgver) # 0 THEN SegCmp(a.pkgver, b.pkgver)
    ELSE SegCmp(a.pkgrel, b.pkgrel)

\* Version.__gt__ / Version.__lt__
VerGt(a, b) == VerCmp(a, b) > 0
VerLt(a, b) == VerCmp(a, b) < 0

\* Version.__eq__ as @dataclass(eq=True) generates it: field by field
VerEq(a, b) == a.epoch = b.epoch /\ a.pkgver = b.pkgver /\ a.pkgrel = b.pkgrel

----------------------------------------------------------------------------
(* Packages and package files *)

Names == {"foo", "bar"}

NoPkg == [none |-> "package"]
NoToken == [none |-> "token"]
NoAsset == [none |-> "asset"]

\* A package file: its name and version come from the file name, its hash and
\* size from the contents.
File(n, v, h, s) == [name |-> n, version |-> v, sha256 |-> h, size |-> s]

Files ==
    { File("foo", v, h[1], h[2]) : v \in Versions, h \in {<<"h1", 10>>, <<"h2", 20>>} }
        \cup { File("bar", V_1_1, "h3", 30) }

\* Package.parse(file, size, sha256)
Parse(f) ==
    [name |-> f.name, version |-> f.version, arch |-> "x86_64",
     sha256 |-> f.sha256, size |-> f.size]

Packages == { Parse(f) : f \in Files }

RECURSIVE SeqToSet(_)
SeqToSet(s) == IF s = <<>> THEN {} ELSE {Head(s)} \cup SeqToSet(Tail(s))

----------------------------------------------------------------------------
(* The external index tools, repo-remove and repo-add *)

\* repo-remove <db> name...: every named entry is gone afterwards
RepoRemove(d, pkgs) ==
    [n \in Names |-> IF \E i \in 1..Len(pkgs) : pkgs[i].name = n THEN NoPkg ELSE d[n]]

\* repo-add --prevent-downgrade <db> file...: the files are taken in order; a
\* file older than the entry of its name is skipped, any other file replaces
\* the entry of its name
RECURSIVE RepoAdd(_, _)
RepoAdd(d, files) ==
    IF files = <<>> THEN d
    ELSE LET f   == Head(files)
             cur == d[f.name]
             d2  == IF cur # NoPkg /\ VerCmp(cur.version, f.version) > 0
                    THEN d
                    ELSE [d EXCEPT ![f.name] = Parse(f)]
         IN  RepoAdd(d2, Tail(files))

\* the archive's member directories, as Package.from_tar_file reads them
Load(d) == { d[n] : n \in {m \in Names : d[m] # NoPkg} }

----------------------------------------------------------------------------
(* Database *)

\* Database.get / Database.contains
Contains(n) == names[n] # NoPkg
Get(n) == names[n]

\* should_add letting an older file through whatever allow_downgrade says
ShouldAddAnyOlder(new_pkg, old_pkg, allow_downgrade) ==
    IF VerGt(new_pkg.version, old_pkg.version) THEN TRUE
    ELSE IF VerEq(old_pkg.version, new_pkg.version)
         THEN (IF new_pkg.sha256 = old_pkg.sha256 THEN FALSE ELSE TRUE)
    ELSE IF VerGt(old_pkg.version, new_pkg.version) THEN TRUE
    ELSE FALSE

\* should_add(new_pkg, old_pkg) inside Database.add; a fall through every
\* branch returns None, which the caller treats as false
ShouldAdd(new_pkg, old_pkg, allow_downgrade) ==
    IF VerGt(new_pkg.version, old_pkg.version) THEN TRUE
    ELSE IF VerEq(old_pkg.version, new_pkg.version)
         THEN (IF new_pkg.sha256 = old_pkg.sha256 THEN FALSE ELSE TRUE)
    ELSE IF VerGt(old_pkg.version, new_pkg.version) THEN allow_downgrade
    ELSE FALSE

\* the record Database.add compares the new file with: the one in _names if
\* there is one, else the one in _add_names, else none
AddOld(n) ==
    IF names[n] # NoPkg THEN names[n]
    ELSE IF add_names[n] # NoPkg THEN add_names[n]
    ELSE NoPkg

AddAccepts(f, allow_downgrade) ==
    AddOld(f.name) = NoPkg \/ ShouldAdd(Parse(f), AddOld(f.name), allow_downgrade)

\* history: a maximal version among those given to add for the name
NoteAdded(f, allow_downgrade) ==
    /\ maxAdded' = [maxAdded EXCEPT ![f.name] =
                      IF @ = NoVer \/ (@ # NoVer /\ VerCmp(f.version, @) > 0)
                      THEN f.version ELSE @]
    /\ tainted' = IF allow_downgrade THEN tainted \cup {f.name} ELSE tainted

\* the caller makes its next call: what the sync() that returned left behind
\* (its locals and its return value) is gone
SyncLocalsReset ==
    /\ sidx' = 0
    /\ stoken' = NoToken
    /\ pexists' = "NONE"
    /\ pothers' = <<>>
    /\ slog' = <<>>
    /\ release_id' = 0
    /\ db_asset_id' = NoAsset
    /\ sig_asset_id' = NoAsset

ForgetSync ==
    /\ SyncLocalsReset
    /\ updates' = <<>>
    /\ requested' = <<>>
    /\ dbUploaded' = FALSE
    /\ rebuilt' = FALSE
    /\ tools' = <<>>
    /\ syncRet' = "unset"
    /\ diskBefore' = disk

\* Database.add(file, allow_downgrade).  present: path.exists(file);
\* sig: "present" when file.sig exists, else the outcome of gpg
DbAdd(f, present, allow_downgrade, sig) ==
    /\ pc = "idle"
    /\ nops < MaxOps
    /\ nops' = nops + 1
    /\ lastOp' = "add"
    /\ unsynced' = {}
    /\ ForgetSync
    /\ IF ~present
       THEN /\ ret' = FALSE
            /\ UNCHANGED <<new_files, removals, add_names, additions, pc,
                           maxAdded, tainted>>
       ELSE /\ new_files' = Append(new_files, <<Parse(f), f>>)
            /\ NoteAdded(f, allow_downgrade)
            /\ IF ~AddAccepts(f, allow_downgrade)
               THEN /\ ret' = FALSE
                    /\ UNCHANGED <<removals, add_names, additions, pc>>
               ELSE /\ removals' = IF names[f.name] # NoPkg
                                   THEN Append(removals, names[f.name])
                                   ELSE removals
                    /\ add_names' = [add_names EXCEPT ![f.name] = Parse(f)]
                    /\ additions' = Append(additions, f)
                    /\ IF sig = "failed"
                       THEN pc' = "exited" /\ UNCHANGED ret
                       ELSE pc' = pc /\ ret' = TRUE
    /\ UNCHANGED <<syncGlobals, ociVars, pipeVars, disk, lock, packages, names>>

\* Database.remove(package)
DbRemove(p) ==
    /\ pc = "idle"
    /\ nops < MaxOps
    /\ nops' = nops + 1
    /\ lastOp' = "remove"
    /\ removals' = IF names[p.name] = NoPkg THEN removals ELSE Append(removals, p)
    /\ tainted' = tainted \cup {p.name}
    /\ ForgetSync
    /\ UNCHANGED <<syncGlobals, ociVars, pipeVars, unsynced, disk, lock, packages, names, additions,
                   add_names, new_files, pc, ret, maxAdded>>

\* another process takes or releases the index lock file; only the poll of
\* save() reads it, so the model lets it change only while save() polls
LockToggle ==
    /\ pc = "save_poll"
    /\ lock' = ~lock
    /\ UNCHANGED <<syncVars, ociVars, pipeVars, tools, unsynced, syncRet, disk, packages, names, additions, add_names, new_files,
                   removals, pc, lastOp, rebuilt, ret, updates, requested, dbUploaded,
                   nops, maxAdded, tainted, diskBefore>>

\* Repository.sync() is entered and calls Database.save()
SyncBegin ==
    /\ pc = "idle"
    /\ nsyncs < MaxSyncs
    /\ nsyncs' = nsyncs + 1
    /\ SyncLocalsReset
    /\ pc' = "save_poll"
    /\ lastOp' = "sync"
    /\ syncRet' = "unset"
    /\ rebuilt' = FALSE
    /\ tools' = <<>>
    /\ updates' = <<>>
    /\ requested' = <<>>
    /\ dbUploaded' = FALSE
    /\ diskBefore' = disk
    /\ UNCHANGED <<url, oauths, exchanges, releases, ociVars, pipeVars, unsynced, disk, lock, packages, names, additions, add_names, new_files,
                   removals, ret, nops, maxAdded, tainted>>

\* a poll that never finds the lock file
LockPresentNever == FALSE

\* os.path.exists(f"{self._db_path}.lck"), as one poll of save() reads it
LockPresent == lock

\* save(): one pass of the lock poll
SavePoll ==
    /\ pc = "save_poll"
    /\ pc' = IF LockPresent THEN "save_poll" ELSE "save_remove"
    /\ UNCHANGED <<syncVars, ociVars, pipeVars, tools, unsynced, syncRet, rebuilt, disk, lock, packages, names, additions, add_names, new_files,
                   removals, lastOp, ret, updates, requested, dbUploaded, nops,
                   maxAdded, tainted, diskBefore>>

\* a save() that runs repo-remove whatever is queued
RemovalsQueuedAlways == TRUE

\* "if (a := len(self._removals)) > 0"
RemovalsQueued == Len(removals) > 0

\* "if (b := len(self._additions)) > 0"
AdditionsQueued == Len(additions) > 0

\* save(): the repo-remove invocation, if any removal is queued
SaveRemove(ok) ==
    /\ pc = "save_remove"
    /\ IF RemovalsQueued
       THEN /\ rebuilt' = TRUE
            /\ tools' = Append(tools, "repo-remove")
            /\ IF ok
               THEN disk' = RepoRemove(disk, removals) /\ pc' = "save_add"
               ELSE pc' = "exited" /\ UNCHANGED disk
       ELSE pc' = "save_add" /\ UNCHANGED <<disk, rebuilt, tools>>
    /\ UNCHANGED <<syncVars, ociVars, pipeVars, unsynced, syncRet, lock, packages, names, additions, add_names, new_files,
                   removals, lastOp, ret, updates, requested, dbUploaded, nops,
                   maxAdded, tainted, diskBefore>>

\* save(): the repo-add invocation, if any addition is queued
SaveAdd(ok) ==
    /\ pc = "save_add"
    /\ IF AdditionsQueued
       THEN /\ rebuilt' = TRUE
            /\ tools' = Append(tools, "repo-add")
            /\ IF ok
               THEN disk' = RepoAdd(disk, additions) /\ pc' = "save_reload"
               ELSE pc' = "exited" /\ UNCHANGED disk
       ELSE pc' = "save_reload" /\ UNCHANGED <<disk, rebuilt, tools>>
    /\ UNCHANGED <<syncVars, ociVars, pipeVars, unsynced, syncRet, lock, packages, names, additions, add_names, new_files,
                   removals, lastOp, ret, updates, requested, dbUploaded, nops,
                   maxAdded, tainted, diskBefore>>

\* Database.reload_from_file(): _names is written for every record read and
\* keeps every other key it had
ReloadNames(d) == [n \in Names |-> IF d[n] # NoPkg THEN d[n] ELSE names[n]]

\* save(): reload if anything was queued, then return _new_files as it was
SaveReturn ==
    /\ pc = "save_reload"
    /\ updates' = new_files
    /\ lastOp' = "save"
    /\ IF Len(removals) + Len(additions) > 0
       THEN /\ packages' = Load(disk)
            /\ names' = ReloadNames(disk)
            /\ add_names' = [n \in Names |-> NoPkg]
            /\ new_files' = <<>>
            /\ additions' = <<>>
            /\ removals' = <<>>
       ELSE UNCHANGED <<packages, names, add_names, new_files, additions, removals>>
    /\ pc' = "sync_check"
    /\ UNCHANGED <<syncVars, ociVars, pipeVars, tools, unsynced, syncRet, rebuilt, disk, lock, ret, requested, dbUploaded, nops, maxAdded,
                   tainted, diskBefore>>

EmptyDisk == [n \in Names |-> NoPkg]

\* the indexes a run may start from
InitDisks == { EmptyDisk,
               [EmptyDisk EXCEPT !["foo"] = Parse(File("foo", V_1_1, "h1", 10))] }

\* Database.load(db_path): Database(db_path, []).reload_from_file()
InitDb ==
    /\ disk \in InitDisks
    /\ lock = FALSE
    /\ packages = Load(disk)
    /\ names = disk
    /\ additions = <<>>
    /\ add_names = [n \in Names |-> NoPkg]
    /\ new_files = <<>>
    /\ removals = <<>>
    /\ pc = "idle"
    /\ lastOp = "load"
    /\ rebuilt = FALSE
    /\ ret = FALSE
    /\ updates = <<>>
    /\ requested = <<>>
    /\ dbUploaded = FALSE
    /\ nops = 0
    /\ maxAdded = [n \in Names |-> NoVer]
    /\ tainted = {}
    /\ diskBefore = disk
    /\ syncRet = "unset"
    /\ unsynced = {}
    /\ tools = <<>>

----------------------------------------------------------------------------
(* OCI documents *)

\* the media types of pmutils.mimes, four distinct strings
MIME_MANIFEST == "mimes.MANIFEST"
MIME_INDEX    == "mimes.INDEX"
MIME_CONFIG   == "mimes.CONFIG"
MIME_BYTES    == "mimes.BYTES"

NoObj      == [none |-> "object"]
NoPlatform == [none |-> "platform"]
NoDigest   == [none |-> "digest"]
NoIndex    == [none |-> "index"]
NoCall     == [op |-> "none"]

\* a version the registry client is given, as the characters of str(version)
OciV_1p1 == <<"1", "+", "1">>
OciV_2   == <<"2">>
OciVersions == {OciV_1p1, OciV_2}

SanitiseChar(c) == IF c = ":" THEN "-" ELSE IF c = "+" THEN "_" ELSE c

\* IVersion.sanitise(): str(self).replace(':', '-').replace('+', '_')
Sanitise(v) == [i \in 1..Len(v) |-> SanitiseChar(v[i])]

\* OciObject(sha256, mime, size)
OciObject(sha, mime, size) == [sha256 |-> sha, mime |-> mime, size |-> size]

\* OciObject.obj()
ObjectObj(o) == [digest |-> <<"sha256", o.sha256>>, mediaType |-> o.mime, size |-> o.size]

Blob1 == OciObject("b1", MIME_BYTES, 10)
Blob2 == OciObject("b2", MIME_BYTES, 20)

OciNames == {"foo"}

\* the remote ("owner/repo") of the one repository: Repository.remote, given
\* to OciWrapper and to the OciManifest of a bundle
Remote == "owner/repo"

\* a str argument, as Python compares it with other values
PyStr(str) == [str |-> str]

\* OciManifest.description = None
NoDescription == [none |-> "description"]

\* OciManifest(name, version, remote_url, layers, description, config)
OciManifest(n, v, r, ls, d, c) ==
    [name |-> n, version |-> v, remote_url |-> r, layers |-> ls, description |-> d,
     config |-> c]

\* the manifests a run uploads: two contents of one version, and a manifest
\* of another version that names its config apart from its layers
OciManifests ==
    { OciManifest("foo", OciV_1p1, Remote, <<Blob1>>, NoDescription, NoObj),
      OciManifest("foo", OciV_1p1, Remote, <<Blob2>>, NoDescription, NoObj),
      OciManifest("foo", OciV_2, Remote, <<Blob1>>, PyStr("a bundle"), Blob2) }

\* f"https://github.com/{remote}": a text, as the pieces it is put together from
GithubUrl(remote) == <<"https://github.com/", remote>>

\* description or f"{name} {version}" (an empty description counts as none)
DescriptionOf(name, version, description) ==
    IF description # NoDescription /\ description.str # ""
    THEN <<description.str>>
    ELSE <<name, " ">> \o version

\* OciManifest.obj()
ManifestObj(m) ==
    LET cfg == IF m.config # NoObj THEN m.config ELSE m.layers[1]
    IN  [schemaVersion |-> 2,
         mediaType |-> MIME_MANIFEST,
         annotations |-> [title |-> m.name, version |-> m.version,
                          source |-> GithubUrl(m.remote_url),
                          description |-> DescriptionOf(m.name, m.version, m.description)],
         config |-> [digest |-> <<"sha256", cfg.sha256>>,
                     mediaType |-> MIME_CONFIG, size |-> cfg.size],
         layers |-> [i \in 1..Len(m.layers) |-> ObjectObj(m.layers[i])]]

\* hashlib.sha256(bytes).hexdigest() of a serialised document: equal exactly
\* for equal documents
Sha256Hex(doc) == [sha256of |-> doc]

\* the annotation keys of a manifest
IMG_TITLE == "org.opencontainers.image.title"
IMG_VERSION == "org.opencontainers.image.version"
IMG_REMOTE_URL == "org.opencontainers.image.source"
IMG_DESCRIPTION == "org.opencontainers.image.description"

\* the characters of a sha256 hex digest, and of "sha256:" before it
HexLen == 64
DigestLen == 7 + HexLen

\* the decimal digits of a size
RECURSIVE Digits(_)
Digits(n) == IF n < 10 THEN 1 ELSE 1 + Digits(n \div 10)

\* json.dumps, counted in characters: a string of n characters with its
\* quotes; a key with its ": "; an object or list of k members whose texts
\* have n characters together, with its brackets and the ", " between members
JsonStr(n) == n + 2
JsonKey(k) == JsonStr(Len(k)) + 2
JsonGroup(k, n) == 2 + n + (IF k > 1 THEN 2 * (k - 1) ELSE 0)

\* a {digest, mediaType, size} object of a manifest
JsonDescLen(o) ==
    JsonGroup(3, JsonKey("digest") + JsonStr(DigestLen)
                 + JsonKey("mediaType") + JsonStr(Len(o.mediaType))
                 + JsonKey("size") + Digits(o.size))

\* the characters of a text given as its pieces
RECURSIVE TextLen(_)
TextLen(t) == IF t = <<>> THEN 0 ELSE Len(Head(t)) + TextLen(Tail(t))

\* the "annotations" object: title and version, and the source and the
\* description when the document has them
JsonAnnotationsLen(a) ==
    JsonGroup(Cardinality(DOMAIN a),
              JsonKey(IMG_TITLE) + JsonStr(Len(a.title))
              + JsonKey(IMG_VERSION) + JsonStr(Len(a.version))
              + (IF "source" \in DOMAIN a
                 THEN JsonKey(IMG_REMOTE_URL) + JsonStr(TextLen(a.source)) ELSE 0)
              + (IF "description" \in DOMAIN a
                 THEN JsonKey(IMG_DESCRIPTION) + JsonStr(TextLen(a.description)) ELSE 0))

RECURSIVE JsonDescsLen(_)
JsonDescsLen(os) == IF os = <<>> THEN 0 ELSE JsonDescLen(Head(os)) + JsonDescsLen(Tail(os))

\* len(json.dumps(manifest).encode("utf-8")): every digest has the same
\* length, so documents that differ in a digest only are equally long
JsonLen(doc) ==
    JsonGroup(5, JsonKey("schemaVersion") + Digits(doc.schemaVersion)
                 + JsonKey("mediaType") + JsonStr(Len(doc.mediaType))
                 + JsonKey("annotations") + JsonAnnotationsLen(doc.annotations)
                 + JsonKey("config") + JsonDescLen(doc.config)
                 + JsonKey("layers")
                 + JsonGroup(Len(doc.layers), JsonDescsLen(doc.layers)))

Platforms == {NoPlatform, PyStr("arm64"), PyStr("amd64")}

----------------------------------------------------------------------------
(* The registry, as the HTTP requests of OciWrapper see it *)

Namespaces == {"foo"}

\* OciWrapper.make_namespace(for_package): "<remote>/<name>", one remote
MakeNamespace(name) == name

RegHasBlob(ns, sha) == <<ns, sha>> \in regBlobs
RegHasManifest(ns, hex) == <<ns, hex>> \in regManifests
RegHasTag(ns, tag) == <<ns, tag>> \in DOMAIN regTags

PutTag(ns, tag, doc) ==
    [k \in DOMAIN regTags \cup {<<ns, tag>>} |->
        IF k = <<ns, tag>> THEN doc ELSE regTags[k]]

Req(method, kind, ref, ok) == [method |-> method, kind |-> kind, ref |-> ref, ok |-> ok]

IsWrite(r) == r.method \in {"PUT", "POST"}

RECURSIVE RefusedIn(_)
RefusedIn(log) ==
    IF log = <<>> THEN 0
    ELSE (IF IsWrite(Head(log)) /\ ~Head(log).ok THEN 1 ELSE 0) + RefusedIn(Tail(log))

RECURSIVE RefusedSoFar(_)
RefusedSoFar(h) ==
    IF h = <<>> THEN 0 ELSE RefusedIn(Head(h).log) + RefusedSoFar(Tail(h))

\* the answers the registry may give to the next write of the run
Answers == IF RefusedSoFar(history) + RefusedIn(olog) < MaxRefused THEN BOOLEAN ELSE {TRUE}

Finish(result) ==
    /\ oret' = result
    /\ history' = Append(history, [call |-> ocall, log |-> olog', ret |-> result])
    /\ ocall' = NoCall
    /\ opc' = "idle"

----------------------------------------------------------------------------
(* OciWrapper.upload_blob *)

\* a client that never takes the HEAD answer for "present"
HeadFoundIgnored(ns, sha) == FALSE

\* "if self.http_head(...).status_code == 200": the blob is there already
HeadFound(ns, sha) == RegHasBlob(ns, sha)

\* upload_blob is called: HEAD /v2/{ns}/blobs/sha256:{sha}; status 200 returns
\* false at once
UploadBlobHead(ns, sha) ==
    /\ opc = "idle"
    /\ Len(history) < MaxCalls
    /\ olog' = <<Req("HEAD", "blob", <<ns, sha>>, RegHasBlob(ns, sha))>>
    /\ IF HeadFound(ns, sha)
       THEN /\ oret' = FALSE
            /\ history' = Append(history,
                   [call |-> [op |-> "upload_blob", ns |-> ns, sha256 |-> sha],
                    log |-> olog', ret |-> FALSE])
            /\ UNCHANGED <<ocall, opc>>
       ELSE /\ ocall' = [op |-> "upload_blob", ns |-> ns, sha256 |-> sha]
            /\ opc' = "blob_post"
            /\ UNCHANGED <<oret, history>>
    /\ UNCHANGED <<syncVars, dbVars, pipeVars, regBlobs, regManifests, regTags, exists, others, thisDigest>>

\* POST /v2/{ns}/blobs/uploads/; a non-2xx answer returns false
UploadBlobPost(ok) ==
    /\ opc = "blob_post"
    /\ olog' = Append(olog, Req("POST", "uploads", ocall.ns, ok))
    /\ IF ok
       THEN opc' = "blob_put" /\ UNCHANGED <<ocall, oret, history>>
       ELSE Finish(FALSE)
    /\ UNCHANGED <<syncVars, dbVars, pipeVars, regBlobs, regManifests, regTags, exists, others, thisDigest>>

\* PUT {location}?digest=sha256:{sha}; true is returned whatever the answer
UploadBlobPut(ok) ==
    /\ opc = "blob_put"
    /\ olog' = Append(olog, Req("PUT", "blob", <<ocall.ns, ocall.sha256>>, ok))
    /\ regBlobs' = IF ok THEN regBlobs \cup {<<ocall.ns, ocall.sha256>>} ELSE regBlobs
    /\ Finish(TRUE)
    /\ UNCHANGED <<syncVars, dbVars, pipeVars, regManifests, regTags, exists, others, thisDigest>>

----------------------------------------------------------------------------
(* OciWrapper.check_existence and OciWrapper.upload *)

\* the test of the loop over index["manifests"]: platform is the str argument,
\* mmm["platform"] the {os, architecture} object of the descriptor
SlotMatches(platform, mmm) ==
    \/ platform = NoPlatform
    \/ "platform" \notin DOMAIN mmm
    \/ platform = mmm.platform

\* the loop over index["manifests"]: <<this_manifest_digest, other_manifests>>
RECURSIVE Partition(_, _, _, _)
Partition(ms, platform, this, other) ==
    IF ms = <<>> THEN <<this, other>>
    ELSE LET mmm == Head(ms)
         IN  IF mmm.mediaType # MIME_MANIFEST
             THEN Partition(Tail(ms), platform, this, other)
             ELSE IF SlotMatches(platform, mmm)
             THEN Partition(Tail(ms), platform, mmm.digest, other)
             ELSE Partition(Tail(ms), platform, this, Append(other, mmm))

\* check_existence up to the decision on the Index document
CheckIndex(ns, manifest, platform) ==
    LET tag == Sanitise(manifest.version)
    IN  IF ~RegHasTag(ns, tag) THEN <<NoDigest, <<>>>>
        ELSE LET index == regTags[<<ns, tag>>]
             IN  IF index.schemaVersion # 2 \/ index.mediaType # MIME_INDEX
                 THEN <<NoDigest, <<>>>>
                 ELSE Partition(index.manifests, platform, NoDigest, <<>>)

\* check_existence once this_manifest_digest is known: the Existence
CheckManifest(ns, manifest, digest) ==
    IF ~RegHasManifest(ns, digest[2]) THEN "NONE"
    ELSE LET mmj == digest[2].sha256of
             cur == IF manifest.config # NoObj THEN manifest.config.sha256
                    ELSE manifest.layers[1].sha256
         IN  IF mmj.schemaVersion # 2 \/ mmj.mediaType # MIME_MANIFEST
                \/ mmj.config.mediaType # MIME_CONFIG
             THEN "CONFLICTS"
             ELSE IF mmj.config.digest[2] = cur THEN "EXISTS" ELSE "CONFLICTS"

\* the writes of upload with the Index pushed before the Manifest
UploadOrderIndexFirst == <<"put_index", "put_manifest">>

\* the writes of upload, in the order the code issues them: upload_manifest
\* first, the Index at the version tag last
UploadOrder == <<"put_manifest", "put_index">>

\* the position that follows a write of upload ("done" after the last one)
NextStep(step) ==
    LET i == CHOOSE k \in 1..Len(UploadOrder) : UploadOrder[k] = step
    IN  IF i = Len(UploadOrder) THEN "done" ELSE UploadOrder[i + 1]

\* upload goes on, or returns UPLOADED after its last write
Proceed(step) ==
    IF NextStep(step) = "done"
    THEN Finish("UPLOADED")
    ELSE opc' = NextStep(step) /\ UNCHANGED <<ocall, oret, history>>

\* upload(manifest, platform) is called and check_existence fetches the Index
\* at the version tag
UploadCheckIndex(manifest, platform) ==
    /\ opc = "idle"
    /\ Len(history) < MaxCalls
    /\ LET ns == MakeNamespace(manifest.name)
           r  == CheckIndex(ns, manifest, platform)
       IN  /\ ocall' = [op |-> "upload", manifest |-> manifest, platform |-> platform]
           /\ olog' = <<Req("GET", "tag", <<ns, Sanitise(manifest.version)>>,
                            RegHasTag(ns, Sanitise(manifest.version)))>>
           /\ thisDigest' = r[1]
           /\ others' = r[2]
           /\ IF r[1] # NoDigest
              THEN opc' = "check_manifest" /\ UNCHANGED exists
              ELSE opc' = UploadOrder[1] /\ exists' = "NONE"
    /\ UNCHANGED <<syncVars, dbVars, pipeVars, regBlobs, regManifests, regTags, oret, history>>

\* an upload that goes on to its writes whatever check_existence answered
ExistsReturnsNever(e) == FALSE

\* upload: "if exists == Existence.EXISTS: return UploadResult.EXISTS"
ExistsReturns(e) == e = "EXISTS"

\* check_existence fetches the Manifest of the current slot; upload returns
\* EXISTS without a write when it has the same config digest
UploadCheckManifest ==
    /\ opc = "check_manifest"
    /\ LET ns == MakeNamespace(ocall.manifest.name)
           e  == CheckManifest(ns, ocall.manifest, thisDigest)
       IN  /\ olog' = Append(olog, Req("GET", "manifest", <<ns, thisDigest>>,
                                       RegHasManifest(ns, thisDigest[2])))
           /\ exists' = e
           /\ IF ExistsReturns(e)
              THEN Finish("EXISTS")
              ELSE opc' = UploadOrder[1] /\ UNCHANGED <<ocall, oret, history>>
    /\ UNCHANGED <<syncVars, dbVars, pipeVars, regBlobs, regManifests, regTags, others, thisDigest>>

\* upload_manifest: PUT /v2/{ns}/manifests/sha256:{digest of the manifest}
UploadPutManifest(ok) ==
    /\ opc = "put_manifest"
    /\ LET ns  == MakeNamespace(ocall.manifest.name)
           hex == Sha256Hex(ManifestObj(ocall.manifest))
       IN  /\ olog' = Append(olog, Req("PUT", "manifest", <<ns, <<"sha256", hex>>>>, ok))
           /\ regManifests' = IF ok THEN regManifests \cup {<<ns, hex>>} ELSE regManifests
    /\ Proceed("put_manifest")
    /\ UNCHANGED <<syncVars, dbVars, pipeVars, regBlobs, regTags, exists, others, thisDigest>>

\* the descriptor upload builds for the manifest it pushed
ManifestDesc(manifest, platform) ==
    LET base == [mediaType |-> MIME_MANIFEST,
                 digest |-> <<"sha256", Sha256Hex(ManifestObj(manifest))>>,
                 size |-> JsonLen(ManifestObj(manifest))]
    IN  IF platform # NoPlatform
        THEN [mediaType |-> base.mediaType, digest |-> base.digest, size |-> base.size,
              platform |-> [os |-> "darwin", architecture |-> platform.str]]
        ELSE base

\* the Index document upload builds
IndexDoc(manifest, platform, other_manifests) ==
    [schemaVersion |-> 2,
     mediaType |-> MIME_INDEX,
     manifests |-> Append(other_manifests, ManifestDesc(manifest, platform)),
     annotations |-> [title |-> manifest.name, version |-> manifest.version,
                      source |-> GithubUrl(Remote),
                      description |-> DescriptionOf(manifest.name, manifest.version,
                                                    manifest.description)]]

\* upload: PUT /v2/{ns}/manifests/{sanitised version}, then UPLOADED
UploadPutIndex(ok) ==
    /\ opc = "put_index"
    /\ LET ns  == MakeNamespace(ocall.manifest.name)
           tag == Sanitise(ocall.manifest.version)
       IN  /\ olog' = Append(olog, Req("PUT", "tag", <<ns, tag>>, ok))
           /\ regTags' = IF ok
                         THEN PutTag(ns, tag, IndexDoc(ocall.manifest, ocall.platform, others))
                         ELSE regTags
    /\ Proceed("put_index")
    /\ UNCHANGED <<syncVars, dbVars, pipeVars, regBlobs, regManifests, exists, others, thisDigest>>

InitOci ==
    /\ regBlobs = {}
    /\ regManifests = {}
    /\ regTags = <<>>
    /\ ocall = NoCall
    /\ opc = "idle"
    /\ exists = "NONE"
    /\ others = <<>>
    /\ thisDigest = NoDigest
    /\ olog = <<>>
    /\ oret = FALSE
    /\ history = <<>>

NextOci ==
    \/ \E ns \in Namespaces, b \in {Blob1, Blob2} : UploadBlobHead(ns, b.sha256)
    \/ \E ok \in Answers : UploadBlobPost(ok)
    \/ \E ok \in Answers : UploadBlobPut(ok)
    \/ \E m \in OciManifests, p \in Platforms : UploadCheckIndex(m, p)
    \/ UploadCheckManifest
    \/ \E ok \in Answers : UploadPutManifest(ok)
    \/ \E ok \in Answers : UploadPutIndex(ok)

----------------------------------------------------------------------------
(* upload_bundle: producer, bounded queue and upload workers (vm/remote.py) *)

NUM_UPLOAD_THREADS == 2

Workers == 1..NUM_UPLOAD_THREADS

BUNDLE_MANIFEST_NAME == "macos-sandbox-vm"

\* NonPacmanVersion(os_ver) and vm_arch, read from the bundle's config.json
BundleVersion == OciV_2
BundleArch == PyStr("arm64")

\* a queue that never reports itself full (maxsize = 0)
QueueFullNever == FALSE

\* Queue(maxsize=...): put blocks while the queue holds maxsize items
QueueFull == Len(queue) >= QueueCap

\* a join that does not wait
WorkersJoinedAtOnce == TRUE

\* "for w in workers: w.join()" has returned
WorkersJoined == \A w \in Workers : wpc[w] = "exited"

\* the layers of the final manifest, from zcmp.blobs
BundleLayers == [i \in 1..Len(blobs) |-> OciObject(blobs[i][1], MIME_BYTES, blobs[i][2])]

BundleManifest ==
    OciManifest(BUNDLE_MANIFEST_NAME, BundleVersion, Remote, BundleLayers, NoDescription, NoObj)

\* history: the queue item is put, taken by a worker or thrown away by the
\* drain (the None item has no history)
Fated(item, event) ==
    IF item = 0 THEN fate ELSE [fate EXCEPT ![item] = Append(@, event)]

\* ZstdCompressionStreamer.upload_blob, up to the put: the blob is recorded
Emit(b) ==
    /\ mpc = "compress"
    /\ Len(blobs) < MaxBlobs
    /\ blobs' = Append(blobs, <<b.sha256, b.size>>)
    /\ mpc' = "put"
    /\ UNCHANGED <<syncVars, dbVars, ociVars, queue, interrupted, wpc, work, retries, attempts,
                   drained, plog, fate>>

\* ZstdCompressionStreamer.upload_blob: queue.put of the recorded blob, which
\* blocks while the queue is full
Put ==
    /\ mpc = "put"
    /\ ~QueueFull
    /\ queue' = Append(queue, Len(blobs))
    /\ fate' = Fated(Len(blobs), "put")
    /\ mpc' = "compress"
    /\ UNCHANGED <<syncVars, dbVars, ociVars, blobs, interrupted, wpc, work, retries, attempts,
                   drained, plog>>

\* the tar stream is closed without an exception: every blob the compressor
\* handed out (there may be none) has been queued
Close ==
    /\ mpc = "compress"
    /\ mpc' = "put_none"
    /\ UNCHANGED <<syncVars, dbVars, ociVars, queue, blobs, interrupted, wpc, work, retries,
                   attempts, drained, plog, fate>>

\* an exception in the producer (interrupt, read or compress error), also
\* while it is blocked in queue.put
Interrupt ==
    /\ mpc \in {"compress", "put"}
    /\ interrupted' = TRUE
    /\ mpc' = "drain"
    /\ UNCHANGED <<syncVars, dbVars, ociVars, queue, blobs, wpc, work, retries, attempts,
                   drained, plog, fate>>

\* a drain that throws nothing away
DrainSkipped ==
    /\ mpc = "drain"
    /\ mpc' = "put_none"
    /\ UNCHANGED <<syncVars, dbVars, ociVars, queue, blobs, interrupted, wpc, work, retries,
                   attempts, drained, plog, fate>>

\* the drain loop: one get_nowait, or the exception that ends the loop
Drain ==
    /\ mpc = "drain"
    /\ IF queue # <<>>
       THEN /\ queue' = Tail(queue)
            /\ drained' = drained + 1
            /\ fate' = Fated(Head(queue), "drain")
            /\ UNCHANGED mpc
       ELSE mpc' = "put_none" /\ UNCHANGED <<queue, drained, fate>>
    /\ UNCHANGED <<syncVars, dbVars, ociVars, blobs, interrupted, wpc, work, retries, attempts,
                   plog>>

\* upload_queue.put(None) of the main thread
PutNone ==
    /\ mpc = "put_none"
    /\ ~QueueFull
    /\ queue' = Append(queue, 0)
    /\ mpc' = "join"
    /\ UNCHANGED <<syncVars, dbVars, ociVars, blobs, interrupted, wpc, work, retries, attempts,
                   drained, plog, fate>>

\* the workers are joined; an interrupted run returns, any other run builds the
\* manifest and calls ociw.upload(manifest, vm_arch).  With no layer and no
\* config, reading layers[0] (check_existence, OciManifest.obj) raises
\* IndexError before any write
Finalise(okm, oki) ==
    /\ mpc = "join"
    /\ WorkersJoined
    /\ mpc' = IF ~interrupted /\ blobs = <<>> THEN "raised" ELSE "returned"
    /\ IF interrupted \/ blobs = <<>>
       THEN UNCHANGED <<regManifests, regTags, plog>>
       ELSE LET m   == BundleManifest
                ns  == MakeNamespace(m.name)
                tag == Sanitise(m.version)
                hex == Sha256Hex(ManifestObj(m))
                r   == CheckIndex(ns, m, BundleArch)
                e   == IF r[1] = NoDigest THEN "NONE" ELSE CheckManifest(ns, m, r[1])
            IN  IF e = "EXISTS"
                THEN UNCHANGED <<regManifests, regTags, plog>>
                ELSE /\ regManifests' = IF okm THEN regManifests \cup {<<ns, hex>>}
                                        ELSE regManifests
                     /\ regTags' = IF oki THEN PutTag(ns, tag, IndexDoc(m, BundleArch, r[2]))
                                   ELSE regTags
                     /\ plog' = <<Req("PUT", "manifest", <<ns, <<"sha256", hex>>>>, okm),
                                  Req("PUT", "tag", <<ns, tag>>, oki)>>
    /\ UNCHANGED <<syncVars, dbVars, regBlobs, ocall, opc, exists, others, thisDigest, olog, oret,
                   history, queue, blobs, interrupted, wpc, work, retries, attempts,
                   drained, fate>>

\* upload_func: queue.get(); None ends the loop, a blob starts the retry loop
WorkerGet(w) ==
    /\ wpc[w] = "get"
    /\ queue # <<>>
    /\ queue' = Tail(queue)
    /\ fate' = Fated(Head(queue), "get")
    /\ IF Head(queue) = 0
       THEN /\ wpc' = [wpc EXCEPT ![w] = "put_none"]
            /\ UNCHANGED <<work, retries, attempts>>
       ELSE /\ wpc' = [wpc EXCEPT ![w] = "try"]
            /\ work' = [work EXCEPT ![w] = Head(queue)]
            /\ retries' = [retries EXCEPT ![w] = 0]
            /\ attempts' = [attempts EXCEPT ![w] = 0]
    /\ UNCHANGED <<syncVars, dbVars, ociVars, blobs, mpc, interrupted, drained, plog>>

\* the positions of a worker inside the retry loop of upload_func: before the
\* upload_blob call, and inside it before its POST and before its PUT
InRetryLoop(w) == wpc[w] \in {"try", "blob_post", "blob_put"}

\* upload_blob returned: "break", and the outer loop takes the next item
AttemptReturns(w) ==
    /\ wpc' = [wpc EXCEPT ![w] = "get"]
    /\ work' = [work EXCEPT ![w] = 0]
    /\ retries' = [retries EXCEPT ![w] = 0]
    /\ attempts' = [attempts EXCEPT ![w] = 0]

\* upload_blob raised: the bare except counts up to 2 retries, and with or
\* without "continue" the while True loop makes the call again
AttemptRaises(w) ==
    /\ wpc' = [wpc EXCEPT ![w] = "try"]
    /\ retries' = [retries EXCEPT ![w] = IF @ < 2 THEN @ + 1 ELSE @]
    /\ UNCHANGED work

\* the blob of the worker's item, in the namespace of the bundle
WorkNs == MakeNamespace(BUNDLE_MANIFEST_NAME)
WorkSha(w) == blobs[work[w]][1]

\* upload_func calls ociw.upload_blob: the HEAD request; status 200 returns
\* False, a failing request raises
AttemptHead(w, out) ==
    /\ wpc[w] = "try"
    /\ IF out = "raise"
       THEN /\ AttemptRaises(w)
            /\ attempts' = [attempts EXCEPT ![w] = IF @ < MaxAttempts THEN @ + 1 ELSE @]
       ELSE IF HeadFound(WorkNs, WorkSha(w))
       THEN AttemptReturns(w)
       ELSE /\ wpc' = [wpc EXCEPT ![w] = "blob_post"]
            /\ attempts' = [attempts EXCEPT ![w] = IF @ < MaxAttempts THEN @ + 1 ELSE @]
            /\ UNCHANGED <<work, retries>>
    /\ UNCHANGED <<syncVars, dbVars, ociVars, queue, blobs, mpc, interrupted, drained,
                   plog, fate>>

\* a worker that ends its thread when the POST is refused
AttemptPostGivesUp(w, out) ==
    /\ wpc[w] = "blob_post"
    /\ out # "raise"
    /\ wpc' = [wpc EXCEPT ![w] = IF out = "accepted" THEN "blob_put" ELSE "exited"]
    /\ UNCHANGED <<syncVars, dbVars, ociVars, queue, blobs, mpc, interrupted, drained,
                   plog, fate, work, retries, attempts>>

\* upload_blob: the POST for an upload location; a non-2xx answer returns False
AttemptPost(w, out) ==
    /\ wpc[w] = "blob_post"
    /\ IF out = "raise" THEN AttemptRaises(w) /\ UNCHANGED attempts
       ELSE IF out = "refused" THEN AttemptReturns(w)
       ELSE /\ wpc' = [wpc EXCEPT ![w] = "blob_put"]
            /\ UNCHANGED <<work, retries, attempts>>
    /\ UNCHANGED <<syncVars, dbVars, ociVars, queue, blobs, mpc, interrupted, drained,
                   plog, fate>>

\* upload_blob: the PUT of the blob; True is returned whatever the answer,
\* and the request may fail before it reaches the registry ("raise") or after
\* the registry stored the blob ("stored_raise")
AttemptPut(w, out) ==
    /\ wpc[w] = "blob_put"
    /\ regBlobs' = IF out \in {"stored", "stored_raise"}
                   THEN regBlobs \cup {<<WorkNs, WorkSha(w)>>}
                   ELSE regBlobs
    /\ IF out \in {"raise", "stored_raise"}
       THEN AttemptRaises(w) /\ UNCHANGED attempts
       ELSE AttemptReturns(w)
    /\ UNCHANGED <<syncVars, dbVars, regManifests, regTags, ocall, opc, exists, others,
                   thisDigest, olog, oret, history, queue, blobs, mpc, interrupted,
                   drained, plog, fate>>

\* a worker that leaves without putting None back
WorkerLeaves(w) ==
    /\ wpc[w] = "put_none"
    /\ wpc' = [wpc EXCEPT ![w] = "exited"]
    /\ UNCHANGED <<syncVars, dbVars, ociVars, queue, blobs, mpc, interrupted, work, retries,
                   attempts, drained, plog, fate>>

\* upload_func: queue.put(None) on the way out
WorkerPutNone(w) ==
    /\ wpc[w] = "put_none"
    /\ ~QueueFull
    /\ queue' = Append(queue, 0)
    /\ wpc' = [wpc EXCEPT ![w] = "exited"]
    /\ UNCHANGED <<syncVars, dbVars, ociVars, blobs, mpc, interrupted, work, retries, attempts,
                   drained, plog, fate>>

\* upload_bundle after the workers are started
InitPipe ==
    /\ queue = <<>>
    /\ blobs = <<>>
    /\ mpc = "compress"
    /\ interrupted = FALSE
    /\ wpc = [w \in Workers |-> "get"]
    /\ work = [w \in Workers |-> 0]
    /\ retries = [w \in Workers |-> 0]
    /\ attempts = [w \in Workers |-> 0]
    /\ drained = 0
    /\ plog = <<>>
    /\ fate = [i \in 1..MaxBlobs |-> <<>>]

\* what a request of upload_blob may end in
HeadOutcomes == {"answered", "raise"}
PostOutcomes == {"accepted", "refused", "raise"}
PutOutcomes == {"stored", "refused", "stored_raise", "raise"}

NextPipe ==
    \/ \E b \in {Blob1, Blob2} : Emit(b)
    \/ Put
    \/ Close
    \/ Interrupt
    \/ Drain
    \/ PutNone
    \/ \E okm \in BOOLEAN, oki \in BOOLEAN : Finalise(okm, oki)
    \/ \E w \in Workers : WorkerGet(w)
    \/ \E w \in Workers, out \in HeadOutcomes : AttemptHead(w, out)
    \/ \E w \in Workers, out \in PostOutcomes : AttemptPost(w, out)
    \/ \E w \in Workers, out \in PutOutcomes : AttemptPut(w, out)
    \/ \E w \in Workers : WorkerPutNone(w)

----------------------------------------------------------------------------
(* Registry.oauth_token and the requests of Repository.sync (registry.py) *)

Repos == {"core"}

\* the token the endpoint issues at its k-th exchange for a repository
Token(repo, k) == [repo |-> repo, serial |-> k]

DigitChars == <<"0", "1", "2", "3", "4", "5", "6", "7", "8", "9">>

\* the characters of a digit string
Chars(ds) == [i \in 1..Len(ds) |-> DigitChars[ds[i] + 1]]

\* package.Version.__str__: "[epoch:]pkgver-pkgrel"
VerStr(v) ==
    (IF v.epoch > 0 THEN <<DigitChars[v.epoch + 1], ":">> ELSE <<>>)
        \o Chars(v.pkgver) \o <<"-">> \o Chars(v.pkgrel)

\* Package.sanitised_name(): REPLACEMENTS.get(self.name) or self.name
SanitisedName(n) ==
    IF n = "crypto++" THEN "cryptopp"
    ELSE IF n = "libsigc++" THEN "libsigcpp"
    ELSE IF n = "libsigc++-docs" THEN "libsigcpp-docs"
    ELSE n

\* pkg_url, and the tag of the package's version
PkgNs(p) == MakeNamespace(SanitisedName(p.name))
PkgTag(p) == Sanitise(VerStr(p.version))

\* Registry.url() values a configuration gives, as the pieces of their text
GhcrUrl == <<"https://", "ghcr.io">>
OtherUrl == <<"https://", "reg.example">>
RegistryUrls == {GhcrUrl, OtherUrl}

\* "ghcr.io" in self.registry.url(), for the urls above
IsGhcr(u) == \E i \in 1..Len(u) : u[i] = "ghcr.io"

\* the annotations _upload_package gives the manifest: the source only for ghcr
PkgAnnotations(p) ==
    IF IsGhcr(url)
    THEN [title |-> p.name, version |-> VerStr(p.version), source |-> GithubUrl(Remote)]
    ELSE [title |-> p.name, version |-> VerStr(p.version)]

\* Package.manifest() with the annotations _upload_package adds
PkgManifestDoc(p) ==
    [schemaVersion |-> 2,
     mediaType |-> MIME_MANIFEST,
     config |-> [mediaType |-> MIME_CONFIG, digest |-> <<"sha256", p.sha256>>,
                 size |-> p.size],
     layers |-> <<[mediaType |-> MIME_BYTES, digest |-> <<"sha256", p.sha256>>,
                   size |-> p.size]>>,
     annotations |-> PkgAnnotations(p)]

\* Repository._get_package_platform(pkg)
PkgPlatform(p) ==
    IF p.arch = "any" THEN NoPlatform
    ELSE IF p.arch \in {"arm64", "arm64e", "aarch64"}
         THEN [os |-> "darwin", architecture |-> "arm64"]
    ELSE IF p.arch = "x86_64" THEN [os |-> "darwin", architecture |-> "amd64"]
    ELSE NoPlatform

\* manifest_desc of _upload_package
PkgManifestDesc(p) ==
    LET base == [mediaType |-> MIME_MANIFEST,
                 digest |-> <<"sha256", Sha256Hex(PkgManifestDoc(p))>>,
                 size |-> JsonLen(PkgManifestDoc(p))]
    IN  IF p.arch \in {"x86_64", "arm64", "arm64e", "aarch64"}
        THEN [mediaType |-> base.mediaType, digest |-> base.digest, size |-> base.size,
              platform |-> [os |-> "darwin",
                            architecture |-> IF p.arch = "x86_64" THEN "amd64"
                                             ELSE "arm64"]]
        ELSE base

\* the Index document _upload_package builds
PkgIndexDoc(p, other_manifests) ==
    [schemaVersion |-> 2,
     mediaType |-> MIME_INDEX,
     manifests |-> Append(other_manifests, PkgManifestDesc(p)),
     annotations |-> [title |-> p.name, version |-> VerStr(p.version),
                      source |-> GithubUrl(Remote)]]

\* the test of the loop of _check_package_existence
PkgSlotMatches(pkg_platform, manifest) ==
    \/ pkg_platform = NoPlatform
    \/ "platform" \notin DOMAIN manifest
    \/ pkg_platform = manifest.platform

\* the loop of _check_package_existence: <<this_manifest_digest, other_manifests>>
RECURSIVE PkgPartition(_, _, _, _)
PkgPartition(ms, pkg_platform, this, other) ==
    IF ms = <<>> THEN <<this, other>>
    ELSE LET manifest == Head(ms)
         IN  IF manifest.mediaType # MIME_MANIFEST
             THEN PkgPartition(Tail(ms), pkg_platform, this, other)
             ELSE IF PkgSlotMatches(pkg_platform, manifest)
             THEN PkgPartition(Tail(ms), pkg_platform, manifest.digest, other)
             ELSE PkgPartition(Tail(ms), pkg_platform, this, Append(other, manifest))

\* _check_package_existence(pkg): <<Existence, other_manifests, requests>>
CheckPackageExistence(p) ==
    LET ns   == PkgNs(p)
        tag  == PkgTag(p)
        get1 == Req("GET", "tag", <<ns, tag>>, RegHasTag(ns, tag))
    IN  IF ~RegHasTag(ns, tag) THEN <<"NONE", <<>>, <<get1>>>>
        ELSE LET index == regTags[<<ns, tag>>]
             IN  IF index.schemaVersion # 2 \/ index.mediaType # MIME_INDEX
                 THEN <<"NONE", <<>>, <<get1>>>>
                 ELSE LET r    == PkgPartition(index.manifests, PkgPlatform(p), NoDigest, <<>>)
                          get2 == Req("GET", "manifest", <<ns, r[1]>>,
                                      RegHasManifest(ns, r[1][2]))
                      IN  IF r[1] = NoDigest THEN <<"NONE", r[2], <<get1>>>>
                          ELSE IF ~RegHasManifest(ns, r[1][2])
                          THEN <<"NONE", r[2], <<get1, get2>>>>
                          ELSE LET mmj == r[1][2].sha256of
                               IN  IF mmj.schemaVersion # 2 \/ mmj.mediaType # MIME_MANIFEST
                                      \/ mmj.config.mediaType # MIME_CONFIG
                                   THEN <<"CONFLICTS", r[2], <<get1, get2>>>>
                                   ELSE IF mmj.config.digest[2] = p.sha256
                                   THEN <<"EXISTS", r[2], <<get1, get2>>>>
                                   ELSE <<"CONFLICTS", r[2], <<get1, get2>>>>

\* the answers the registry or the release host may give to the next write
SyncAnswers == IF RefusedIn(slog) < MaxRefused THEN BOOLEAN ELSE {TRUE}

\* the entry of updates _upload_package is working on: (pkg, file)
CurPkg == updates[sidx][1]
CurFile == updates[sidx][2]

\* sync() moves on; when it returns, it returns None
SyncGoes(to) ==
    /\ pc' = to
    /\ syncRet' = IF to = "idle" THEN "None" ELSE syncRet

\* what a write request of _upload_package leaves noted about the file
Noted(ok) == IF ok THEN unsynced ELSE unsynced \cup {CurFile}

\* Repository.sync() after save(): "if len(updates) == 0: return"
SyncCheck ==
    /\ pc = "sync_check"
    /\ SyncGoes(IF Len(updates) = 0 THEN "idle" ELSE "token")
    /\ UNCHANGED <<dbState, requested, dbUploaded, unsynced, ociVars, pipeVars, syncVars>>

\* Registry.oauth_token(repo), called by sync: the cached token if there is
\* one, else GET {url}/token; any status but 200 ends the process, and the
\* token obtained is returned without being stored in _oauths
OauthToken(repo, ok) ==
    /\ pc = "token"
    /\ IF oauths[repo] # NoToken
       THEN /\ stoken' = oauths[repo]
            /\ SyncGoes("pkg_check")
            /\ sidx' = 1
            /\ UNCHANGED <<slog, exchanges, oauths>>
       ELSE /\ slog' = Append(slog, Req("GET", "token", repo, ok))
            /\ IF ok
               THEN /\ exchanges' = [exchanges EXCEPT ![repo] = @ + 1]
                    /\ stoken' = Token(repo, exchanges[repo] + 1)
                    /\ UNCHANGED oauths
                    /\ SyncGoes("pkg_check")
                    /\ sidx' = 1
               ELSE /\ SyncGoes("exited")
                    /\ UNCHANGED <<exchanges, stoken, oauths, sidx>>
    /\ UNCHANGED <<dbState, requested, dbUploaded, unsynced, ociVars, pipeVars,
                   pexists, pothers, url, releases, release_id, db_asset_id,
                   sig_asset_id, nsyncs>>

\* the two PUTs that end _upload_package, in the order the code issues them:
\* the Index at the version tag, then the Manifest at its digest
PkgPutOrder == <<"pkg_index", "pkg_manifest">>

\* _upload_package returns: sync goes on to the next entry of the list, or
\* to _upload_database after the last one
PkgReturn ==
    IF sidx < Len(updates)
    THEN SyncGoes("pkg_check") /\ sidx' = sidx + 1
    ELSE SyncGoes("db_get") /\ UNCHANGED sidx

\* _upload_package: _check_package_existence; EXISTS returns at once
PkgCheck ==
    /\ pc = "pkg_check"
    /\ requested' = Append(requested, CurFile)
    /\ unsynced' = unsynced \ {CurFile}
    /\ LET r == CheckPackageExistence(CurPkg)
       IN  /\ pexists' = r[1]
           /\ pothers' = r[2]
           /\ slog' = slog \o r[3]
           /\ IF r[1] = "EXISTS"
              THEN PkgReturn
              ELSE SyncGoes("pkg_head") /\ UNCHANGED sidx
    /\ UNCHANGED <<dbState, dbUploaded, ociVars, pipeVars, syncGlobals, stoken,
                   release_id, db_asset_id, sig_asset_id>>

\* _upload_package: HEAD /v2/{pkg_url}/blobs/sha256:{sha256}; 200 skips the
\* blob upload
PkgHead ==
    /\ pc = "pkg_head"
    /\ slog' = Append(slog, Req("HEAD", "blob", <<PkgNs(CurPkg), CurPkg.sha256>>,
                                RegHasBlob(PkgNs(CurPkg), CurPkg.sha256)))
    /\ SyncGoes(IF RegHasBlob(PkgNs(CurPkg), CurPkg.sha256) THEN PkgPutOrder[1]
                ELSE "pkg_post")
    /\ UNCHANGED <<dbState, requested, dbUploaded, unsynced, ociVars, pipeVars,
                   syncGlobals, sidx, stoken, pexists, pothers, release_id,
                   db_asset_id, sig_asset_id>>

\* _upload_package: POST /v2/{pkg_url}/blobs/uploads/; a non-2xx answer returns
PkgPost(ok) ==
    /\ pc = "pkg_post"
    /\ slog' = Append(slog, Req("POST", "uploads", PkgNs(CurPkg), ok))
    /\ unsynced' = Noted(ok)
    /\ IF ok THEN SyncGoes("pkg_blob") /\ UNCHANGED sidx ELSE PkgReturn
    /\ UNCHANGED <<dbState, requested, dbUploaded, ociVars, pipeVars, syncGlobals,
                   stoken, pexists, pothers, release_id, db_asset_id, sig_asset_id>>

\* _upload_package: PUT {location}?digest=sha256:{sha256}; the answer is not read
PkgPutBlob(ok) ==
    /\ pc = "pkg_blob"
    /\ slog' = Append(slog, Req("PUT", "blob", <<PkgNs(CurPkg), CurPkg.sha256>>, ok))
    /\ regBlobs' = IF ok THEN regBlobs \cup {<<PkgNs(CurPkg), CurPkg.sha256>>} ELSE regBlobs
    /\ unsynced' = Noted(ok)
    /\ SyncGoes(PkgPutOrder[1])
    /\ UNCHANGED <<dbState, requested, dbUploaded, pipeVars, regManifests, regTags,
                   callVars, syncGlobals, sidx, stoken, pexists, pothers, release_id,
                   db_asset_id, sig_asset_id>>

\* what follows one of the two PUTs
PkgAfterPut(step) ==
    IF step = PkgPutOrder[1]
    THEN SyncGoes(PkgPutOrder[2]) /\ UNCHANGED sidx
    ELSE PkgReturn

\* _upload_package: PUT /v2/{pkg_url}/manifests/{sanitised version}, the Index
PkgPutIndex(ok) ==
    /\ pc = "pkg_index"
    /\ slog' = Append(slog, Req("PUT", "tag", <<PkgNs(CurPkg), PkgTag(CurPkg)>>, ok))
    /\ regTags' = IF ok
                  THEN PutTag(PkgNs(CurPkg), PkgTag(CurPkg), PkgIndexDoc(CurPkg, pothers))
                  ELSE regTags
    /\ unsynced' = Noted(ok)
    /\ PkgAfterPut("pkg_index")
    /\ UNCHANGED <<dbState, requested, dbUploaded, pipeVars, regBlobs, regManifests,
                   callVars, syncGlobals, stoken, pexists, pothers, release_id,
                   db_asset_id, sig_asset_id>>

\* _upload_package: PUT /v2/{pkg_url}/manifests/sha256:{manifest_digest}
PkgPutManifest(ok) ==
    /\ pc = "pkg_manifest"
    /\ LET hex == Sha256Hex(PkgManifestDoc(CurPkg))
       IN  /\ slog' = Append(slog, Req("PUT", "manifest",
                                       <<PkgNs(CurPkg), <<"sha256", hex>>>>, ok))
           /\ regManifests' = IF ok THEN regManifests \cup {<<PkgNs(CurPkg), hex>>}
                              ELSE regManifests
    /\ unsynced' = Noted(ok)
    /\ PkgAfterPut("pkg_manifest")
    /\ UNCHANGED <<dbState, requested, dbUploaded, pipeVars, regBlobs, regTags,
                   callVars, syncGlobals, stoken, pexists, pothers, release_id,
                   db_asset_id, sig_asset_id>>

----------------------------------------------------------------------------
(* Repository._upload_database and the release host *)

\* a release as GET /repos/{remote}/releases lists it; its id is its position
\* in the list, an asset's id the pair <<release id, asset name>>
Release(name, assets) == [name |-> name, assets |-> assets]

\* Repository.release_name, and the asset names f"{name}.db", f"{name}.db.sig"
ReleaseName == "pkgs"
DbAssetName == "core.db"
SigAssetName == "core.db.sig"

\* what the release host may hold when a run begins
InitReleases ==
    { <<>>,
      <<Release("other", {DbAssetName})>>,
      <<Release(ReleaseName, {})>>,
      <<Release(ReleaseName, {DbAssetName, SigAssetName})>>,
      <<Release(ReleaseName, {DbAssetName}), Release(ReleaseName, {SigAssetName})>> }

\* the loop over the releases: <<release_id, db_asset_id, sig_asset_id>>; a
\* later release of the name overwrites release_id, and an asset id only where
\* it has an asset of that name
RECURSIVE FindRelease(_, _, _, _, _)
FindRelease(rels, i, rid, dbid, sigid) ==
    IF i > Len(rels) THEN <<rid, dbid, sigid>>
    ELSE IF rels[i].name = ReleaseName
         THEN FindRelease(rels, i + 1, i,
                  IF DbAssetName \in rels[i].assets THEN <<i, DbAssetName>> ELSE dbid,
                  IF SigAssetName \in rels[i].assets THEN <<i, SigAssetName>> ELSE sigid)
         ELSE FindRelease(rels, i + 1, rid, dbid, sigid)

\* the writes of _upload_database with the uploads issued before the deletes
DatabaseStepsUploadFirst == <<"upload_db", "upload_sig", "delete_db", "delete_sig">>

\* the writes of _upload_database in the order the code issues them: the two
\* deletes, then the two uploads
DatabaseSteps == <<"delete_db", "delete_sig", "upload_db", "upload_sig">>

\* the position after a write of _upload_database; after the last one
\* _upload_database, and sync() with it, returns
DbAfter(step) ==
    LET i == CHOOSE k \in 1..Len(DatabaseSteps) : DatabaseSteps[k] = step
    IN  IF i = Len(DatabaseSteps) THEN "idle" ELSE DatabaseSteps[i + 1]

\* _upload_database up to its first write: the releases are fetched and
\* searched; with no release of the name it returns; the index is signed when
\* it has no signature file yet (sig as in DbAdd), and a failing gpg raises
\* CalledProcessError out of sync()
DbFind(sig) ==
    /\ pc = "db_get"
    /\ slog' = Append(slog, Req("GET", "releases", ReleaseName, TRUE))
    /\ LET r == FindRelease(releases, 1, 0, NoAsset, NoAsset)
       IN  /\ release_id' = r[1]
           /\ db_asset_id' = r[2]
           /\ sig_asset_id' = r[3]
           /\ SyncGoes(IF r[1] = 0 THEN "idle"
                       ELSE IF sig = "failed" THEN "raised"
                       ELSE DatabaseSteps[1])
    /\ UNCHANGED <<dbState, requested, dbUploaded, unsynced, ociVars, pipeVars,
                   syncGlobals, sidx, stoken, pexists, pothers>>

\* the host after DELETE .../releases/assets/{asset_id}
DeleteAsset(rels, id) ==
    [rels EXCEPT ![id[1]] = Release(@.name, @.assets \ {id[2]})]

\* the host after POST .../releases/{release_id}/assets?name=...
CreateAsset(rels, rid, name) ==
    [rels EXCEPT ![rid] = Release(@.name, @.assets \cup {name})]

\* "if ..._asset_id is not None: self._delete_asset(...)"; the answer of the
\* host is not read
DbDelete(step, id, ok) ==
    /\ pc = step
    /\ IF id # NoAsset
       THEN /\ slog' = Append(slog, Req("DELETE", "asset", id, ok))
            /\ releases' = IF ok THEN DeleteAsset(releases, id) ELSE releases
       ELSE UNCHANGED <<slog, releases>>
    /\ SyncGoes(DbAfter(step))
    /\ UNCHANGED <<dbState, requested, dbUploaded, unsynced, ociVars, pipeVars,
                   url, oauths, exchanges, nsyncs, sidx, stoken, pexists, pothers,
                   release_id, db_asset_id, sig_asset_id>>

\* self._upload_asset(token, release_id, name, file); the answer of the host,
\* which refuses a name the release already has, is not read
DbUpload(step, name, ok) ==
    /\ pc = step
    /\ LET took == ok /\ name \notin releases[release_id].assets
       IN  /\ slog' = Append(slog, Req("POST", "asset", <<release_id, name>>, took))
           /\ releases' = IF took THEN CreateAsset(releases, release_id, name)
                          ELSE releases
    /\ dbUploaded' = (dbUploaded \/ name = DbAssetName)
    /\ SyncGoes(DbAfter(step))
    /\ UNCHANGED <<dbState, requested, unsynced, ociVars, pipeVars,
                   url, oauths, exchanges, nsyncs, sidx, stoken, pexists, pothers,
                   release_id, db_asset_id, sig_asset_id>>

DbDeleteDb(ok) == DbDelete("delete_db", db_asset_id, ok)
DbDeleteSig(ok) == DbDelete("delete_sig", sig_asset_id, ok)
DbUploadDb(ok) == DbUpload("upload_db", DbAssetName, ok)
DbUploadSig(ok) == DbUpload("upload_sig", SigAssetName, ok)

InitSync ==
    /\ url \in RegistryUrls
    /\ oauths = [r \in Repos |-> NoToken]
    /\ exchanges = [r \in Repos |-> 0]
    /\ sidx = 0
    /\ stoken = NoToken
    /\ pexists = "NONE"
    /\ pothers = <<>>
    /\ slog = <<>>
    /\ releases \in InitReleases
    /\ release_id = 0
    /\ db_asset_id = NoAsset
    /\ sig_asset_id = NoAsset
    /\ nsyncs = 0

\* Database.save() as sync() runs it
NextSave ==
    \/ LockToggle
    \/ SyncBegin
    \/ SavePoll
    \/ \E ok \in BOOLEAN : SaveRemove(ok)
    \/ \E ok \in BOOLEAN : SaveAdd(ok)
    \/ SaveReturn

\* the requests of sync() after save(), with the answers the token endpoint,
\* the registry and the release host may give and the outcomes of the signing
NextRequests(answers, sigs) ==
    \/ SyncCheck
    \/ \E repo \in Repos, ok \in answers : OauthToken(repo, ok)
    \/ PkgCheck
    \/ PkgHead
    \/ \E ok \in SyncAnswers \cap answers : PkgPost(ok)
    \/ \E ok \in SyncAnswers \cap answers : PkgPutBlob(ok)
    \/ \E ok \in SyncAnswers \cap answers : PkgPutIndex(ok)
    \/ \E ok \in SyncAnswers \cap answers : PkgPutManifest(ok)
    \/ \E sig \in sigs : DbFind(sig)
    \/ \E ok \in answers : DbDeleteDb(ok)
    \/ \E ok \in answers : DbDeleteSig(ok)
    \/ \E ok \in SyncAnswers \cap answers : DbUploadDb(ok)
    \/ \E ok \in SyncAnswers \cap answers : DbUploadSig(ok)

\* every call on the database, and sync() with all it does when every request
\* is accepted and the index has its signature file
NextDb ==
    \/ \E f \in Files, allow \in BOOLEAN, sig \in {"present", "signed", "failed"} :
          DbAdd(f, TRUE, allow, sig)
    \/ \E f \in Files : DbAdd(f, FALSE, FALSE, "present")
    \/ \E p \in Packages : DbRemove(p)
    \/ NextSave
    \/ NextRequests({TRUE}, {"present"})

\* the files the runs of SpecSync add
SyncFiles ==
    { File("foo", V_1_1, "h1", 10), File("foo", V_1_1, "h2", 20),
      File("bar", V_1_1, "h3", 30) }

\* sync() with all it does, whatever its requests are answered, on a database
\* that is given signed files to add
NextSync ==
    \/ \E f \in SyncFiles : DbAdd(f, TRUE, FALSE, "present")
    \/ NextSave
    \/ NextRequests(BOOLEAN, {"present", "signed", "failed"})

----------------------------------------------------------------------------
(* The specifications *)

Init == InitDb /\ InitOci /\ InitPipe /\ InitSync

\* the release host the runs of SpecDb meet: its release holds both assets
DatabaseReleases == { <<Release(ReleaseName, {DbAssetName, SigAssetName})>> }

\* the database and Repository.sync, everything else at rest
InitDatabase == Init /\ releases \in DatabaseReleases /\ url = GhcrUrl
SpecDb == InitDatabase /\ [][NextDb]_vars

\* the registry client, the database at rest
InitRegistry == Init /\ disk = EmptyDisk /\ releases = <<>> /\ url = GhcrUrl
SpecOci == InitRegistry /\ [][NextOci]_vars

\* upload_bundle, the database and the registry client at rest
SpecPipe == InitRegistry /\ [][NextPipe]_vars

\* the outcomes of a request that do not raise
Returns == {"answered", "accepted", "refused", "stored"}

\* upload_bundle when no upload_blob call raises
NextPipeReturns ==
    \/ \E b \in {Blob1, Blob2} : Emit(b)
    \/ Put
    \/ Close
    \/ Interrupt
    \/ Drain
    \/ PutNone
    \/ \E okm \in BOOLEAN, oki \in BOOLEAN : Finalise(okm, oki)
    \/ \E w \in Workers : WorkerGet(w)
    \/ \E w \in Workers : AttemptHead(w, "answered")
    \/ \E w \in Workers, out \in PostOutcomes \cap Returns : AttemptPost(w, out)
    \/ \E w \in Workers, out \in PutOutcomes \cap Returns : AttemptPut(w, out)
    \/ \E w \in Workers : WorkerPutNone(w)

\* the threads are scheduled: a step of the main thread or of a worker that
\* stays possible is taken (queue.put with room, queue.get with an item, an
\* upload_blob call that returns, the join once the workers are gone).  What
\* the tar stream does (Emit, Close, Interrupt) is not forced.
PipeFairness ==
    /\ WF_vars(Put)
    /\ WF_vars(Drain)
    /\ WF_vars(PutNone)
    /\ WF_vars(\E okm \in BOOLEAN, oki \in BOOLEAN : Finalise(okm, oki))
    /\ \A w \in Workers :
          /\ WF_vars(WorkerGet(w))
          /\ WF_vars(AttemptHead(w, "answered"))
          /\ WF_vars(\E out \in PostOutcomes \cap Returns : AttemptPost(w, out))
          /\ WF_vars(\E out \in PutOutcomes \cap Returns : AttemptPut(w, out))
          /\ WF_vars(WorkerPutNone(w))

\* upload_bundle with its threads scheduled and every upload_blob returning
SpecPipeLive == InitRegistry /\ [][NextPipeReturns]_vars /\ PipeFairness

\* Repository.sync from an empty index, an empty registry and any release host
InitRepository == Init /\ disk = EmptyDisk
SpecSync == InitRepository /\ [][NextSync]_vars

----------------------------------------------------------------------------
(* Claims about OciWrapper, checked under SpecOci *)

WritesOf(log) == SelectSeq(log, IsWrite)
AllAccepted(log) == \A i \in 1..Len(log) : IsWrite(log[i]) => log[i].ok
IsUpload(h) == h.call.op = "upload"
IsBlobCall(h) == h.call.op = "upload_blob"
ConfigSha(m) == IF m.config # NoObj THEN m.config.sha256 ELSE m.layers[1].sha256
TagKey(m) == <<MakeNamespace(m.name), Sanitise(m.version)>>

\* calls 1 and 2 of the run push two different manifests of one version for
\* two different platforms, every write accepted by the registry
TwoPlatformsPushed ==
    /\ Len(history) >= 2
    /\ IsUpload(history[1]) /\ IsUpload(history[2])
    /\ LET a == history[1].call
           b == history[2].call
       IN  /\ a.manifest.name = b.manifest.name
           /\ a.manifest.version = b.manifest.version
           /\ a.manifest # b.manifest
           /\ a.platform # NoPlatform /\ b.platform # NoPlatform
           /\ a.platform # b.platform
    /\ AllAccepted(history[1].log) /\ AllAccepted(history[2].log)

\* the Index at the tag holds exactly the two descriptors of calls 1 and 2
TwoDescriptors ==
    LET a == history[1].call
        b == history[2].call
    IN  /\ TagKey(a.manifest) \in DOMAIN regTags
        /\ LET ms == regTags[TagKey(a.manifest)].manifests
           IN  /\ Len(ms) = 2
               /\ {ms[1], ms[2]} = {ManifestDesc(a.manifest, a.platform),
                                    ManifestDesc(b.manifest, b.platform)}

\* C1: from a registry with no Index at the tag of version V, uploading a
\* manifest for platform A and then a different manifest for platform B leaves
\* one Index at the tag with exactly two descriptors, for A and for B; uploading
\* platform A again with the identical manifest then returns EXISTS, issues no
\* write, and leaves the Index with exactly those two descriptors.
C1_MultiPlatformPreserved ==
    TwoPlatformsPushed =>
        /\ (Len(history) = 2 /\ opc = "idle") => TwoDescriptors
        /\ (Len(history) = 3 /\ opc = "idle" /\ history[3].call = history[1].call) =>
              /\ history[3].ret = "EXISTS"
              /\ WritesOf(history[3].log) = <<>>
              /\ TwoDescriptors

\* the call before call i stored the blob: its PUT was accepted
StoredBlob(h) == IsBlobCall(h) /\ h.log[Len(h.log)].method = "PUT" /\ h.log[Len(h.log)].ok

Methods(log) == [i \in 1..Len(log) |-> log[i].method]

\* C2: upload_blob on a digest the registry holds (HEAD answers 200) issues no
\* POST and no PUT and returns false; of two consecutive upload_blob calls with
\* the same namespace and digest, the first of which stores the blob, the first
\* performs one POST and one PUT and the second only the HEAD.
C2_BlobDedup ==
    \A i \in 1..Len(history) :
        IsBlobCall(history[i]) =>
            /\ history[i].log[1].method = "HEAD"
            /\ history[i].log[1].ok =>
                  (Len(history[i].log) = 1 /\ history[i].ret = FALSE)
            /\ (i > 1 /\ StoredBlob(history[i - 1])
                      /\ history[i - 1].call = history[i].call) =>
                  /\ Methods(history[i - 1].log) = <<"HEAD", "POST", "PUT">>
                  /\ Methods(history[i].log) = <<"HEAD">>

\* C2's case: a blob was stored by one call and the next call asked for it again
C2_Witness ==
    \E i \in 2..Len(history) :
        /\ StoredBlob(history[i - 1])
        /\ history[i].call = history[i - 1].call
        /\ history[i].ret = FALSE

\* the two writes upload issues for a manifest, in order
ExpectedWrites(m) ==
    <<[method |-> "PUT", kind |-> "manifest",
       ref |-> <<MakeNamespace(m.name), <<"sha256", Sha256Hex(ManifestObj(m))>>>>],
      [method |-> "PUT", kind |-> "tag", ref |-> TagKey(m)]>>

IsPrefixOfExpected(log, m) ==
    LET w == WritesOf(log)
    IN  /\ Len(w) <= 2
        /\ \A k \in 1..Len(w) :
              [method |-> w[k].method, kind |-> w[k].kind, ref |-> w[k].ref]
                  = ExpectedWrites(m)[k]

\* the writes of every upload call, finished or running, are the manifest PUT at
\* the manifest's own digest and then the tag PUT, nothing else and nothing after
WritesInOrder ==
    /\ \A i \in 1..Len(history) :
          IsUpload(history[i]) =>
              /\ IsPrefixOfExpected(history[i].log, history[i].call.manifest)
              /\ history[i].ret = "UPLOADED" => Len(WritesOf(history[i].log)) = 2
              /\ history[i].ret = "EXISTS" => Len(WritesOf(history[i].log)) = 0
    /\ ocall.op = "upload" =>
          /\ IsPrefixOfExpected(olog, ocall.manifest)
          /\ Len(WritesOf(olog)) < 2

\* a tag changes only in the step that ends the call, after the manifest PUT
TagWrittenLast ==
    regTags' # regTags =>
        /\ ocall.op = "upload"
        /\ Len(WritesOf(olog)) = 1 /\ olog[Len(olog)].kind = "manifest"
        /\ opc' = "idle"
        /\ \A k \in DOMAIN regTags : k # TagKey(ocall.manifest) => regTags'[k] = regTags[k]

\* C3: when check_existence answers NONE or CONFLICTS, upload PUTs the Manifest
\* at sha256:<its digest> before it PUTs the Index at the sanitised version tag,
\* and the tag PUT is the last write of the call: in every state of a call that
\* has not finished, the tag resolves to what it resolved to before the call.
C3_TagPutLast == []WritesInOrder /\ [][TagWrittenLast]_vars

\* C3's case: a conflicting upload has sent its manifest and not yet the Index,
\* while the tag holds the earlier Index
C3_Witness ==
    /\ ocall.op = "upload"
    /\ opc = "put_index"
    /\ exists = "CONFLICTS"
    /\ TagKey(ocall.manifest) \in DOMAIN regTags

\* C4: given an Index at the manifest's version tag with one descriptor of
\* platform {os: darwin, architecture: p} whose Manifest exists and has another
\* config digest than the new manifest, check_existence(ns, manifest, p) answers
\* CONFLICTS and its other_manifests does not contain that descriptor.
C4_ConflictDetected ==
    (ocall.op = "upload" /\ opc = UploadOrder[1] /\ WritesOf(olog) = <<>>
        /\ ocall.platform # NoPlatform /\ TagKey(ocall.manifest) \in DOMAIN regTags) =>
        LET ns == MakeNamespace(ocall.manifest.name)
            ms == regTags[TagKey(ocall.manifest)].manifests
        IN  (/\ Len(ms) = 1
             /\ "platform" \in DOMAIN ms[1]
             /\ ms[1].platform = [os |-> "darwin", architecture |-> ocall.platform.str]
             /\ RegHasManifest(ns, ms[1].digest[2])
             /\ ms[1].digest[2].sha256of.config.digest[2] # ConfigSha(ocall.manifest)) =>
                /\ exists = "CONFLICTS"
                /\ \A k \in 1..Len(others) : others[k] # ms[1]

Registry == <<regBlobs, regManifests, regTags>>

OnlyGets(log) == \A i \in 1..Len(log) : log[i].method = "GET"

\* C17: when check_existence classifies the manifest as EXISTS, upload returns
\* EXISTS in that step, having issued only GET requests (no manifest PUT, no
\* Index PUT, no blob request), and no step of the call changes the registry.
C17_ExistsNoWrite ==
    /\ [][(opc = "check_manifest" /\ exists' = "EXISTS") =>
             (/\ oret' = "EXISTS"
              /\ opc' = "idle"
              /\ Len(history') = Len(history) + 1
              /\ OnlyGets(olog')
              /\ Registry' = Registry)]_vars
    /\ [][opc' = "check_manifest" => Registry' = Registry]_vars
    /\ [](\A i \in 1..Len(history) :
             (IsUpload(history[i]) /\ history[i].ret = "EXISTS") =>
                 OnlyGets(history[i].log))

\* C17's case: an upload found its manifest in the registry and returned EXISTS
C17_Witness ==
    \E i \in 1..Len(history) :
        /\ IsUpload(history[i])
        /\ history[i].ret = "EXISTS"
        /\ Len(history[i].log) = 2

\* C18: when the existence check runs with no platform against an Index that
\* has descriptors carrying a platform, every descriptor with a platform is in
\* other_manifests and the current slot is not one of them.
C18_NoPlatformKeepsOthers ==
    (/\ ocall.op = "upload"
     /\ ocall.platform = NoPlatform
     /\ WritesOf(olog) = <<>>
     /\ TagKey(ocall.manifest) \in DOMAIN regTags) =>
        LET ms == regTags[TagKey(ocall.manifest)].manifests
        IN  \A k \in 1..Len(ms) :
                "platform" \in DOMAIN ms[k] =>
                    /\ \E j \in 1..Len(others) : others[j] = ms[k]
                    /\ thisDigest # ms[k].digest

\* C28: upload returns UPLOADED only if the manifest PUT and the Index PUT of
\* the call were both answered with a 2xx status; when the registry refuses
\* either write the call does not return UPLOADED, and the Index is not pushed
\* after a refused manifest PUT.
C28_UploadedOnlyOnSuccess ==
    /\ \A i \in 1..Len(history) :
          IsUpload(history[i]) =>
              /\ history[i].ret = "UPLOADED" =>
                    /\ Len(WritesOf(history[i].log)) = 2
                    /\ AllAccepted(history[i].log)
              /\ \A j, k \in 1..Len(history[i].log) :
                    (/\ j < k
                     /\ history[i].log[j].kind = "manifest"
                     /\ history[i].log[j].method = "PUT"
                     /\ ~history[i].log[j].ok)
                        => history[i].log[k].kind # "tag"
    /\ (ocall.op = "upload" /\ opc = "put_index") => AllAccepted(olog)

----------------------------------------------------------------------------
(* Claims about Database and Repository.sync, checked under SpecDb (C19 and *)
(* C20, where requests are refused, under SpecSync)                         *)

SaveReturned == lastOp = "save"

\* C5: version monotonicity.  For a name that only saw add calls with
\* allow_downgrade = false, the record the database holds after a save() has a
\* version at least as new as every version ever given to add for that name.
C5_VersionMonotonic ==
    SaveReturned =>
        \A n \in Names \ tainted :
            maxAdded[n] # NoVer =>
                /\ disk[n] # NoPkg
                /\ Contains(n) /\ Get(n) = disk[n]
                /\ VerCmp(disk[n].version, maxAdded[n]) >= 0

\* C5's case: save() rebuilt the index from several files of one name, one of
\* them older than the record that was kept
C5_Witness ==
    /\ SaveReturned /\ rebuilt
    /\ "foo" \notin tainted
    /\ disk["foo"] # NoPkg
    /\ \E i \in 1..Len(updates) :
          /\ updates[i][1].name = "foo"
          /\ VerLt(updates[i][1].version, disk["foo"].version)

\* the name has exactly one record, on disk and mirrored, or staged
OneExistingRecord(n) ==
    /\ ~(names[n] # NoPkg /\ add_names[n] # NoPkg)
    /\ names[n] # NoPkg \/ add_names[n] # NoPkg
    /\ names[n] # NoPkg => disk[n] = names[n]

NoExistingRecord(n) == names[n] = NoPkg /\ add_names[n] = NoPkg

\* what the claim says add returns, by the version ordering
ClaimedAddResult(f, allow_downgrade) ==
    IF NoExistingRecord(f.name) THEN TRUE
    ELSE LET c == VerCmp(f.version, AddOld(f.name).version)
         IN  IF c > 0 THEN TRUE
             ELSE IF c = 0 THEN f.sha256 # AddOld(f.name).sha256
             ELSE allow_downgrade

\* C6: add of an existing file whose name has exactly one record R returns true
\* when the new version is strictly newer; false when the versions are equal
\* and the hashes equal; true when the versions are equal and the hashes
\* differ; allow_downgrade when it is strictly older.  With no record of the
\* name it returns true.
C6_AddDecision ==
    [][\A f \in Files, allow \in BOOLEAN :
          (/\ OneExistingRecord(f.name) \/ NoExistingRecord(f.name)
           /\ DbAdd(f, TRUE, allow, "present"))
              => ret' = ClaimedAddResult(f, allow)]_vars

\* C7: after a save() that invoked the rebuild tool the instance shows what a
\* fresh load of the archive shows: packages() lists the archive's records, and
\* for every name contains() holds, and get() answers the archive's record,
\* exactly when the archive has an entry of that name.
C7_ReloadMatchesArchive ==
    (SaveReturned /\ rebuilt) =>
        /\ packages = Load(disk)
        /\ \A n \in Names :
              /\ Contains(n) <=> disk[n] # NoPkg
              /\ Contains(n) => Get(n) = disk[n]

\* C8: of several files of one name accepted before a save() only the last one
\* stays staged: repo-add is given one file per name, and save() returns one
\* (record, file) pair per name.
C8_OneFilePerName ==
    /\ pc = "save_add" =>
          \A i, j \in 1..Len(additions) :
              i # j => additions[i].name # additions[j].name
    /\ SaveReturned =>
          \A i, j \in 1..Len(updates) :
              i # j => updates[i][1].name # updates[j][1].name

\* C9: when every add since the last save returned false and no removal is
\* queued, save() invokes no rebuild tool and returns the empty list, and the
\* sync() that called it issues no request for the file.
C9_RejectedFileUntouched ==
    (SaveReturned /\ ~rebuilt) =>
        /\ updates = <<>>
        /\ requested = <<>>
        /\ ~dbUploaded

\* C10: when save() ends because repo-remove or repo-add failed, the on-disk
\* index is what it was when save() began; and in no state has a queued removal
\* been applied while the queued addition that replaces it has not.
C10_SaveAllOrNothing ==
    /\ (pc = "exited" /\ lastOp = "sync") => disk = diskBefore
    /\ pc = "save_add" =>
          \A n \in Names :
              (diskBefore[n] # NoPkg /\ disk[n] = NoPkg) =>
                  \A i \in 1..Len(additions) : additions[i].name # n

\* a step of the caller out of the lock poll
LeavesPoll == pc = "save_poll" /\ pc' # "save_poll"

\* C11: save() invokes no rebuild tool and does not return before one of its
\* polls has seen the lock file absent: while it polls, nothing has been rebuilt
\* and the index is what it was; a poll that finds the lock file present changes
\* nothing and leaves save() polling; the step that leaves the poll is taken with
\* the lock file absent and goes on to the queued removals and additions.
C11_SaveWaitsForLock ==
    /\ [](pc = "save_poll" => (~rebuilt /\ disk = diskBefore /\ lastOp = "sync"))
    /\ [][LeavesPoll => (~lock /\ pc' = "save_remove")]_vars
    /\ [][(pc = "save_poll" /\ lock /\ lock' = lock) => UNCHANGED vars]_vars

\* C11's case: save() is polling with work queued while another process holds
\* the lock
C11_Witness ==
    /\ pc = "save_poll"
    /\ lock
    /\ Len(removals) + Len(additions) > 0

\* a Repository.sync() has returned and nothing was called since
SyncReturned == pc = "idle" /\ syncRet # "unset"

\* the files of the sync that returned whose registry upload failed
FailedInSync == unsynced \cap SeqToSet(requested)

\* C19: when the registry upload of at least one package failed during a
\* Repository.sync(), what sync returns differs from what a sync returns in
\* which every package was uploaded (None).
C19_SyncReportsFailure ==
    (SyncReturned /\ lastOp = "save" /\ FailedInSync # {}) => syncRet # "None"

\* C20: a file whose registry upload failed in one sync(), with no add since,
\* is uploaded again by the next sync(): when a sync() returns, every such file
\* is among the files that sync issued requests for.
C20_SyncRetriesFailed ==
    (SyncReturned /\ lastOp = "save") => unsynced \subseteq SeqToSet(requested)

\* C22: Database.add treats two versions as equal exactly when the comparator
\* orders neither before the other, also when their strings differ: against a
\* record of such a version a file with another hash is accepted (add returns
\* true) and a file with the same hash is rejected; and every pair of versions
\* is one of newer, equal, older for should_add.
C22_EqualityByComparator ==
    [][\A f \in Files, allow \in BOOLEAN :
          (/\ AddOld(f.name) # NoPkg
           /\ DbAdd(f, TRUE, allow, "present"))
              => /\ VerCmp(f.version, AddOld(f.name).version) = 0 =>
                       /\ VerEq(AddOld(f.name).version, f.version)
                       /\ ret' = (f.sha256 # AddOld(f.name).sha256)
                 /\ \/ VerGt(f.version, AddOld(f.name).version)
                    \/ VerEq(AddOld(f.name).version, f.version)
                    \/ VerGt(AddOld(f.name).version, f.version)]_vars

\* the name has a record on disk, mirrored by the instance, and a record
\* staged by an add since the last save
DiskAndStaged(n) == disk[n] # NoPkg /\ names[n] = disk[n] /\ add_names[n] # NoPkg

\* C23: when a name has both an on-disk record and a staged record, a further
\* add for the name is decided against the staged record: a file strictly older
\* than the staged record is rejected when allow_downgrade is false, and a file
\* identical to the staged one (equal version, equal hash) is rejected.
C23_DecidedAgainstStaged ==
    [][\A f \in Files, allow \in BOOLEAN :
          (/\ DiskAndStaged(f.name)
           /\ DbAdd(f, TRUE, allow, "present"))
              => /\ (VerLt(f.version, add_names[f.name].version) /\ ~allow)
                       => ret' = FALSE
                 /\ (f.version = add_names[f.name].version
                        /\ f.sha256 = add_names[f.name].sha256)
                       => ret' = FALSE]_vars

\* C24: within one save() the rebuild tool is invoked at most once for
\* removals and at most once for additions, the removal invocation before the
\* addition invocation; the removal invocation happens only with a non-empty
\* removal queue, the addition invocation only with a non-empty addition queue.
C24_ToolOrder ==
    /\ [](tools \in {<<>>, <<"repo-remove">>, <<"repo-add">>,
                     <<"repo-remove", "repo-add">>})
    /\ [][tools' # tools =>
             \/ tools' = <<>>
             \/ /\ tools' = Append(tools, "repo-remove")
                /\ pc = "save_remove" /\ Len(removals) > 0
             \/ /\ tools' = Append(tools, "repo-add")
                /\ pc = "save_add" /\ Len(additions) > 0]_vars
    /\ []((pc = "save_reload" /\ Len(removals) = 0) => tools \in {<<>>, <<"repo-add">>})
    /\ []((pc = "save_reload" /\ Len(additions) = 0) => tools \in {<<>>, <<"repo-remove">>})

\* C24's case: save() has run repo-remove and then repo-add and is about to
\* reload
C24_Witness ==
    /\ pc = "save_reload"
    /\ tools = <<"repo-remove", "repo-add">>

\* the names save() passes to repo-remove: [x.name for x in self._removals]
RemovalNames == [i \in 1..Len(removals) |-> removals[i].name]

\* C29: after any sequence of add and remove calls since the last save the
\* removal queue holds at most one entry per package name, so the name list
\* save() passes to repo-remove contains no name twice.
C29_RemovalsDistinct ==
    \A i, j \in 1..Len(RemovalNames) :
        i # j => RemovalNames[i] # RemovalNames[j]

----------------------------------------------------------------------------
(* Claims about upload_bundle, checked under SpecPipe *)

BundleNs == MakeNamespace(BUNDLE_MANIFEST_NAME)

\* the final upload sent a manifest PUT that the registry accepted
ManifestPushed == plog # <<>> /\ plog[1].kind = "manifest" /\ plog[1].ok

\* the document of the manifest the final upload sent
PushedDoc == plog[1].ref[2][2].sha256of

\* C12: a worker calls upload_blob for one queued blob at most 3 times, the
\* first attempt and at most 2 retries; after the third failed attempt it gives
\* the blob up and goes on to the next queue item.
C12_RetryBound ==
    \A w \in Workers : attempts[w] <= 3

\* C13: the upload queue never holds more than its capacity; while it is full
\* and the producer waits in queue.put, no further blob is recorded and the
\* producer stays in the put (or is interrupted there) until an item is taken.
C13_Backpressure ==
    /\ [](Len(queue) <= QueueCap)
    /\ [][(mpc = "put" /\ Len(queue) >= QueueCap) =>
             (blobs' = blobs /\ mpc' \in {"put", "drain"})]_vars

\* C13's case: the queue is full and the producer holds a blob it cannot queue
C13_Witness ==
    /\ mpc = "put"
    /\ Len(queue) = QueueCap
    /\ \A i \in 1..Len(queue) : queue[i] # 0

\* the drain loop of an interrupted run has ended
DrainFinished == interrupted /\ mpc \in {"put_none", "join", "returned"}

\* C14: in a run whose producer stopped with an exception, once the drain has
\* finished no blob is left in the queue and no worker takes a blob any more;
\* upload_bundle returns only after every worker has exited; and no Manifest
\* and no Index is pushed.
C14_InterruptedRun ==
    /\ [](DrainFinished => \A i \in 1..Len(queue) : queue[i] = 0)
    /\ [][DrainFinished => \A w \in Workers : wpc'[w] = "try" => InRetryLoop(w)]_vars
    /\ []((interrupted /\ mpc = "returned") => \A w \in Workers : wpc[w] = "exited")
    /\ [](interrupted => (plog = <<>> /\ regManifests = {} /\ DOMAIN regTags = {}))

\* C14's case: an interrupted run returned after the drain threw blobs away
\* and a worker had stored one
C14_Witness ==
    /\ interrupted
    /\ mpc = "returned"
    /\ drained > 0
    /\ regBlobs # {}

\* C15: a Manifest is pushed only when every blob it lists is stored in the
\* registry; a run in which some blob was never stored pushes none.
C15_ManifestNeedsBlobs ==
    plog # <<>> =>
        \A i \in 1..Len(blobs) : RegHasBlob(BundleNs, blobs[i][1])

\* C16: in a run that is not interrupted the Manifest is pushed only after
\* every worker has exited, and its layers are the emitted blobs in emission
\* order.
C16_ManifestAfterWorkers ==
    plog # <<>> =>
        /\ ~interrupted
        /\ \A w \in Workers : wpc[w] = "exited"
        /\ plog[1].kind = "manifest"
        /\ Len(PushedDoc.layers) = Len(blobs)
        /\ \A i \in 1..Len(blobs) :
              /\ PushedDoc.layers[i].digest = <<"sha256", blobs[i][1]>>
              /\ PushedDoc.layers[i].size = blobs[i][2]
              /\ PushedDoc.layers[i].mediaType = MIME_BYTES

\* C16's case: a manifest of three layers, two of them different, was pushed
C16_Witness ==
    /\ ManifestPushed
    /\ Len(blobs) = 3
    /\ blobs[1] # blobs[2]

----------------------------------------------------------------------------
(* Claims about Registry.oauth_token and the requests of Repository.sync,  *)
(* checked under SpecSync                                                  *)

\* C21: once oauth_token(repo) has succeeded for a repository, every later
\* oauth_token call for it in the same process returns the same token and
\* sends no request to the token endpoint: at most one token exchange per
\* repository per process.
C21_OneExchangePerRepo ==
    \A r \in Repos :
        /\ exchanges[r] <= 1
        /\ stoken \in {NoToken, Token(r, 1)}

IsHostRequest(r) == r.kind \in {"releases", "asset"}
IsAssetWrite(r) == r.kind = "asset"
IsRegistryRequest(r) == r.kind \in {"tag", "manifest", "blob", "uploads"}

\* the running sync() has sent its first request for the k-th package
AttemptBegun(k) ==
    \E i \in 1..Len(slog) :
        /\ slog[i].kind = "tag" /\ slog[i].method = "GET"
        /\ slog[i].ref = <<PkgNs(updates[k][1]), PkgTag(updates[k][1])>>

\* the running _upload_database has sent a DELETE for the asset
DeleteSent(id) ==
    \E i \in 1..Len(slog) : slog[i].method = "DELETE" /\ slog[i].ref = id

\* _upload_database is about to create the asset of that name
AboutToCreate(name) ==
    \/ pc = "upload_db" /\ name = DbAssetName
    \/ pc = "upload_sig" /\ name = SigAssetName

\* C26: in a sync() whose save() returned updates, the index archive and its
\* signature go to the release host only after the upload attempt of every
\* package has finished; an existing asset of the same name is deleted (its
\* DELETE is sent) before the new asset of that name is created, and no DELETE
\* follows the creation; with no release of the configured name no asset is
\* deleted or created.
C26_DatabaseUploadedLast ==
    /\ [](\A j \in 1..Len(slog) :
             IsHostRequest(slog[j]) =>
                 /\ \A k \in 1..Len(updates) : AttemptBegun(k)
                 /\ \A i \in (j + 1)..Len(slog) : ~IsRegistryRequest(slog[i]))
    /\ []((pc = "db_get" \/ \E k \in 1..Len(DatabaseSteps) : pc = DatabaseSteps[k])
             => sidx = Len(updates))
    /\ [](\A name \in {DbAssetName, SigAssetName} :
             (AboutToCreate(name) /\ name \in releases[release_id].assets)
                 => DeleteSent(<<release_id, name>>))
    /\ [](\A i, j \in 1..Len(slog) :
             (i < j /\ slog[i].method = "POST" /\ IsAssetWrite(slog[i]))
                 => slog[j].method # "DELETE")
    /\ []((\E i \in 1..Len(slog) : IsAssetWrite(slog[i])) => release_id # 0)
    /\ [][(pc = "db_get" /\ release_id' = 0) =>
             (pc' = "idle" /\ releases' = releases)]_vars

\* C26's case: a sync() of two packages has returned after it deleted both
\* assets of the release and created both again
C26_Witness ==
    /\ pc = "idle"
    /\ Len(updates) = 2
    /\ Len(SelectSeq(slog, LAMBDA r : r.method = "DELETE" /\ r.ok)) = 2
    /\ Len(SelectSeq(slog, LAMBDA r : r.method = "POST" /\ IsAssetWrite(r) /\ r.ok)) = 2

\* the Index at the package's version tag lists the descriptor _upload_package
\* builds for the package
IndexListsPkg(p) ==
    /\ RegHasTag(PkgNs(p), PkgTag(p))
    /\ \E i \in 1..Len(regTags[<<PkgNs(p), PkgTag(p)>>].manifests) :
          regTags[<<PkgNs(p), PkgTag(p)>>].manifests[i] = PkgManifestDesc(p)

\* C27: in every state reached during or after _upload_package, a stop between
\* two of its requests and a failed blob PUT included, whenever the package's
\* version tag resolves to an Index, every manifest digest that Index lists and
\* the call added is stored in the registry, and so is the blob that manifest
\* references.
C27_IndexedManifestStored ==
    \A k \in 1..sidx :
        IndexListsPkg(updates[k][1]) =>
            /\ RegHasManifest(PkgNs(updates[k][1]), Sha256Hex(PkgManifestDoc(updates[k][1])))
            /\ RegHasBlob(PkgNs(updates[k][1]), updates[k][1].sha256)

----------------------------------------------------------------------------
(* Claims about the shutdown of upload_bundle, checked under SpecPipeLive *)

\* the main thread has put its None on the queue
SentinelQueued == mpc \in {"join", "returned", "raised"}

\* the blob was put on the queue
WasQueued(i) == fate[i] # <<>>

\* a worker leaves its loop only with a None it took, and exits only by
\* putting a None back
WorkerLeavesByNone ==
    \A w \in Workers :
        /\ (wpc[w] # "put_none" /\ wpc'[w] = "put_none") =>
               (queue # <<>> /\ Head(queue) = 0 /\ queue' = Tail(queue))
        /\ (wpc[w] # "exited" /\ wpc'[w] = "exited") =>
               (wpc[w] = "put_none" /\ queue' = Append(queue, 0))

\* C25 as stated: once the main thread has enqueued the sentinel, every worker
\* eventually takes a sentinel, puts it back and exits, so the join completes,
\* and exactly the blobs enqueued before the sentinel have each been taken by
\* exactly one worker.
C25_CascadingShutdown ==
    /\ SentinelQueued ~> WorkersJoined
    /\ [][WorkerLeavesByNone]_vars
    /\ [](WorkersJoined =>
             \A i \in 1..MaxBlobs : fate[i] \in {<<>>, <<"put", "get">>})

\* C25 amended: ... and exactly the blobs enqueued before the sentinel that the
\* drain of an interrupted run did not throw away have each been taken by
\* exactly one worker; a blob the drain threw away is taken by no worker.
C25_CascadingShutdownAfterDrain ==
    /\ SentinelQueued ~> WorkersJoined
    /\ [][WorkerLeavesByNone]_vars
    /\ [](WorkersJoined =>
             \A i \in 1..MaxBlobs :
                 /\ fate[i] \in {<<>>, <<"put", "get">>, <<"put", "drain">>}
                 /\ fate[i] = <<"put", "drain">> => interrupted)
    /\ [](\A i \in 1..MaxBlobs :
             /\ Len(fate[i]) <= 2
             /\ WasQueued(i) => fate[i][1] = "put")

\* C25's case: every worker has exited after an interrupted run in which one
\* blob was taken by a worker and another thrown away by the drain
C25_Witness ==
    /\ WorkersJoined
    /\ \E i, j \in 1..MaxBlobs :
          fate[i] = <<"put", "get">> /\ fate[j] = <<"put", "drain">>

\* a thread waits in queue.put on a full queue
MainWaitsToPut == mpc \in {"put", "put_none"} /\ QueueFull
WorkerWaitsToPut(w) == wpc[w] = "put_none" /\ QueueFull

\* C30: assuming every upload_blob call returns, upload_bundle has no deadlock:
\* no worker exits before the main thread has enqueued the sentinel, so while
\* the producer waits in queue.put on a full queue a worker is left to take
\* items and the put goes through; the final put of the sentinel by the main
\* thread goes through, so does the put of an exiting worker, and
\* upload_bundle gets past its join.
C30_NoDeadlock ==
    /\ [](\A w \in Workers : wpc[w] \in {"put_none", "exited"} => SentinelQueued)
    /\ [](MainWaitsToPut => \E w \in Workers : wpc[w] = "get" \/ InRetryLoop(w))
    /\ [](\A w \in Workers : ~WorkerWaitsToPut(w))
    /\ (mpc = "put") ~> (mpc # "put")
    /\ (mpc = "put_none") ~> (mpc = "join")
    /\ \A w \in Workers : (wpc[w] = "put_none") ~> (wpc[w] = "exited")
    /\ (mpc = "join") ~> (mpc \in {"returned", "raised"})

\* C30's case: the main thread holds the sentinel and cannot put it yet, the
\* queue being full of blobs while a worker is busy with another blob
C30_Witness ==
    /\ mpc = "put_none"
    /\ QueueFull
    /\ \A i \in 1..Len(queue) : queue[i] # 0
    /\ \E w \in Workers : InRetryLoop(w)

====
